---- MODULE Spec2Model ----
(***************************************************************************)
(* A model of the juggler gateway: the per-connection close latch and      *)
(* exclusive writer (package juggler, package wswriter), the redis broker  *)
(* scripts and dequeue loops (package redisbroker), the callee (package    *)
(* callee) and the default message processor (ProcessMsg).                 *)
(*                                                                         *)
(* The specifications share the variables:                                 *)
(*   SpecClose  a connection's setup and its Close latch                   *)
(*   SpecWriter the exclusive writers of the connections                   *)
(*   SpecCall   the RPC pipeline: CALL, broker, callee, RES                *)
(*   SpecResultFair  one call and its result, the tasks scheduled fairly   *)
(*   SpecProc   the default processor on the four request types            *)
(***************************************************************************)
EXTENDS Integers, Sequences, FiniteSets, TLC

(***************************************************************************)
(* Bounds of the model.                                                    *)
(***************************************************************************)
\* number of Conn.Close calls made on one connection
MaxCloses == 3
\* number of Write calls made on one exclusive writer
MaxWrites == 2
\* largest lock acquisition timeout (in timer ticks) given to Conn.Writer
MaxLockTimeout == 1

\* number of requests the clients send
MaxReqs == 2
\* last tick of the clock
MaxTime == 4
\* clock ticks per millisecond: durations are finer than redis' milliseconds
TicksPerMs == 2
\* broker.DefaultCallTimeout, in milliseconds
DefaultCallTimeoutMs == 60000

Conns == {"c1", "c2"}
URIs == {"u1", "u2"}
\* the channels of the pub-sub requests
Channels == {"ch1"}
\* the channel names and patterns of the subscriptions, the args of a PUB
SubChannels == {"ch1", "*"}
PubArgs == {"x", "y"}
\* the number of pub-sub commands run on the broker
MaxPsOps == 4
\* the limits and the payload sizes of a limited writer, the number of writes
MaxLimit == 3
MaxPayload == 3
MaxLWrites == 3
\* the URIs the callee listens on, in the order of its BRPOP keys
ListenURIs == <<"u1">>
\* the timeouts (in ticks) a client puts in a CALL: one millisecond
CallTimeouts == {2}
\* the broker configurations: CallCap and ResultCap (0 means no limit)
BrokerCfgs == {[CallCap |-> 0, ResultCap |-> 0], [CallCap |-> 1, ResultCap |-> 1]}
\* the connection whose Close latch SpecClose exercises
CloseConns == {"c1"}
Writers == {"w1", "w2", "w3"}
\* the errors handed to Conn.Close by its callers; "nil" is Go's nil error
CloseErrs == {"nil", "a", "b"}

VARIABLES
    \* ---- Conn (README.wait.md:271-293) ----
    served,      \* c -> ServeConn has been called with the connection
    servePc,     \* c -> where ServeConn is: "none" | "accepting" (the
                 \*      Accepting callback was called) | "results" (past
                 \*      the results handle) | "handles" (past the pub-sub
                 \*      handle) | "connected" (the Connected callback
                 \*      was called) | "serving" (loops started, waiting
                 \*      on kill) | "failed" | "returned"
    psc,         \* c -> "nil" | "set" : the pub-sub broker handle
    resc,        \* c -> "nil" | "set" : the results broker handle
    pscCloses,   \* c -> number of psc.Close() calls made
    rescCloses,  \* c -> number of resc.Close() calls made
    closeOnce,   \* c -> the sync.Once of Close has run
    kill,        \* c -> number of close(c.kill) executed (a 2nd one panics)
    CloseErr,    \* c -> the CloseErr field
    closeArgs,   \* c -> the errors of the Close calls made so far, in order
    wmu,         \* c -> number of tokens in the write-lock channel (cap. 1)
    wsOut,       \* c -> the bytes handed to the websocket, tagged by writer
    allowedMsgs, \* c -> the allowed request types ({} means any)
    loops,       \* c -> the loops ServeConn started and that still run
    connState,   \* c -> the ConnState notifications made so far, in order
    header,      \* c -> the Juggler-Allowed-Messages header of the request
                 \*      Upgrade served the connection for
    \* ---- exclusiveWriter (part_005:47-54) ----
    ew,          \* w -> the writer object and its caller's position
    \* ---- clients and the receive loop ----
    reqs,        \* the requests read so far: reqs[id] = [t, conn, err] with
                 \*      err the outcome of the request's broker operation
    proc,        \* c -> the request ProcessMsg is handling, between the
                 \*      broker operation and the Send of its ACK or NACK
    sent,        \* c -> the messages handed to Conn.Send, in order
    wire,        \* c -> the messages written to the websocket, in order
    wres,        \* c -> what writeMsg returned for each message of sent
    wvars,       \* the expvar counters WriteLockTimeouts, WriteLimitExceeded
    lw,          \* the limitedWriter: its field n, once Limit has made it
    lwLog,       \* the Write calls on it: size, returned count and error
    \* ---- the store and the broker (part_011) ----
    now,         \* the clock, in ticks
    cfg,         \* the Broker's CallCap and ResultCap
    callList,    \* uri -> the list juggler:calls:{uri}, head first
    resList,     \* c -> the list juggler:results:{c}, head first
    tkeys,       \* the timeout keys: [kind, slot, id, exp (in ms)]
    subs,        \* c -> the subscriptions of the connection's pub-sub handle
    evIn,        \* c -> the messages redis delivered to the pub-sub handle
    psLog,       \* the SUBSCRIBE, UNSUBSCRIBE and PUBLISH commands redis ran
    eTasks,      \* c -> the sendEvent tasks in flight
    evPoll,      \* c -> "listening" | "stopping" | "closed": listen, its stream
    evErr,       \* c -> the err slot of the pubSubConn
    evOut,       \* c -> the payloads received from the Events stream
    evHeld,      \* c -> the payload Conn.pubSub has received and not yet
                 \*      handed to Send
    expvars,     \* the expvar counters of the broker's Calls and Results
    \* ---- callsConn and the callee ----
    callPoll,    \* "polling" | "closed": the Calls loop and its stream
    cIn,         \* the per-payload tasks of the Calls loop
    callsOut,    \* the call payloads delivered on the Calls stream, in order
    worker,      \* the call the callee is running, with its start time
    invoked,     \* the outcomes of InvokeAndStoreResult, in order
    cc,          \* the callsConn: made, its once, its channel, the polling
                 \*      goroutines started, its redis connection closed
    callErr,     \* the err slot of the callsConn
    callsRet,    \* the channels the invocations of Calls returned, in order
    pool,        \* w -> the position of a worker ranging over Calls()
                 \*      and the call it is running
    otherOut,    \* the calls another callee's BRPOP popped, in order
    lsn,         \* Callee.Listen: its position and the error it returned
    nils,        \* the BRPOPs that returned ErrNil, by loop
    \* ---- message decoding and handler wrappers ----
    um,          \* a call of message.UnmarshalRequest: the message's type,
                 \*      the allowed types, and whether it returned a message
    panics,      \* the handler calls under PanicRecover that panicked: the
                 \*      connection, the panic value, what recover returned
    recovered,   \* the expvar counter RecoveredPanics
    \* ---- resultsConn ----
    resPoll,     \* c -> "polling" | "stopping" | "closed": pollResults
    resErr,      \* c -> the err slot of the resultsConn
    rIn,         \* c -> the sendResult tasks in flight
    resOut,      \* c -> the result payloads delivered on Results, in order
    resHeld,     \* c -> the payload Conn.results has received and not yet
                 \*      handed to Send
    \* ---- Client (client.go:32-42) ----
    cpc,         \* id -> the position of the Client.Call that sent call id
    pending,     \* the results map: the ids of the calls awaiting a result
    expiry,      \* id -> the handleExpiredCall task of the call
    cin,         \* the responses written to the client's websocket, unread
    cread,       \* the responses the read loop has read, in order
    rmsg,        \* the response the read loop has read and not yet
                 \*      looked up in the results map
    spawned,     \* the messages of the `go c.handler.Handle` goroutines
                 \*      that have not run yet
    handled,     \* the messages dispatched to the Handler, in order
    readLoop     \* "running" | "stopped": handleMessages, and c.stop

connVars == <<served, servePc, psc, resc, pscCloses, rescCloses, closeOnce, kill,
              CloseErr, closeArgs, wmu, wsOut, allowedMsgs, loops, connState,
              header>>
recvVars == <<reqs, proc>>
outVars == <<sent, wire, wres, wvars>>
storeVars == <<cfg, callList, resList, tkeys>>
calleeVars == <<callPoll, cIn, callsOut, worker, invoked>>
resVars == <<resPoll, resErr, rIn, resOut, resHeld>>
evLoopVars == <<eTasks, evPoll, evErr, evOut, evHeld>>
psVars == <<subs, evIn, psLog, evLoopVars>>
calleeLib == <<cc, callErr, callsRet, pool, otherOut, lsn, nils>>
hdlVars == <<um, panics, recovered>>
libVars == <<lw, lwLog, calleeLib, hdlVars>>
cliVars == <<cpc, pending, expiry, cin, cread, rmsg, spawned, handled, readLoop>>
rpcVars == <<recvVars, outVars, now, storeVars, psVars, expvars, calleeVars,
             resVars, cliVars, libVars>>
vars == <<connVars, ew, rpcVars>>

\* no limited writer was made yet
NoLimit == [made |-> FALSE, n |-> 0, limit |-> 0]

\* the connection was served by a direct ServeConn call, not by Upgrade
NoHeader == <<"(not upgraded)">>

NoWriter == [conn |-> "none", init |-> FALSE, w |-> "nil", lockTimeout |-> 0,
             waited |-> 0, pc |-> "none", writes |-> 0, wrote |-> 0,
             err |-> "nil"]

(***************************************************************************)
(* newConn: the state of a freshly constructed connection.  The write lock *)
(* starts with one token in the channel.                                   *)
(***************************************************************************)
newConn ==
    /\ served = [c \in Conns |-> FALSE]
    /\ servePc = [c \in Conns |-> "none"]
    /\ psc = [c \in Conns |-> "nil"]
    /\ resc = [c \in Conns |-> "nil"]
    /\ pscCloses = [c \in Conns |-> 0]
    /\ rescCloses = [c \in Conns |-> 0]
    /\ closeOnce = [c \in Conns |-> FALSE]
    /\ kill = [c \in Conns |-> 0]
    /\ CloseErr = [c \in Conns |-> "nil"]
    /\ closeArgs = [c \in Conns |-> <<>>]
    /\ wmu = [c \in Conns |-> 1]
    /\ wsOut = [c \in Conns |-> <<>>]
    /\ allowedMsgs = [c \in Conns |-> {}]
    /\ loops = [c \in Conns |-> {}]
    /\ connState = [c \in Conns |-> <<>>]
    /\ header = [c \in Conns |-> NoHeader]

\* no handleExpiredCall task was started for the call
NoExpiry == [pc |-> "none", at |-> 0]

\* the read loop is in NextReader and holds no response
NoResponse == [pc |-> "idle"]

\* NewClient: no call made, nothing pending, the read loop running
newClient ==
    /\ cpc = [id \in 1..MaxReqs |-> "none"]
    /\ pending = {}
    /\ expiry = [id \in 1..MaxReqs |-> NoExpiry]
    /\ cin = <<>>
    /\ cread = <<>>
    /\ rmsg = NoResponse
    /\ spawned = <<>>
    /\ handled = <<>>
    /\ readLoop = "running"

NoMsg == [t |-> "none"]
NoCall == [id |-> 0]

\* the broker, the store and the callee before any request
\* the workers of a callee that range over the stream of one callsConn
PoolWorkers == {"p1", "p2"}

\* no callsConn yet, and a worker that has not called Calls yet
NoCallsConn == [made |-> FALSE, once |-> FALSE, ch |-> 0, pollers |-> 0,
                closed |-> FALSE]
NewWorker == [pc |-> "start", ch |-> 0, id |-> 0]
NoNils == [calls |-> 0, results |-> 0]

\* newCallsConn: the connection and its uris; once, ch and err are zero
newCallsConn == [NoCallsConn EXCEPT !.made = TRUE]

\* the thunks of a callee, named by the URI they are registered for, and
\* the map that registers one for each of ListenURIs
Thunk(u) == [thunk |-> u]
NoThunks == [u \in {} |-> Thunk(u)]
ThunkMap == [u \in {ListenURIs[k] : k \in 1..Len(ListenURIs)} |-> Thunk(u)]

\* the callee as Callee.Listen has set it up: the callsConn is made, Calls
\* has run once and started the loop, and Listen ranges over the stream
listening ==
    /\ cc = [made |-> TRUE, once |-> TRUE, ch |-> 1, pollers |-> 1,
             closed |-> FALSE]
    /\ callErr = "nil"
    /\ callsRet = <<1>>
    /\ pool = [w \in PoolWorkers |-> NewWorker]
    /\ otherOut = <<>>
    /\ lsn = [pc |-> "listening", ret |-> "nil", m |-> ThunkMap]
    /\ nils = NoNils

\* no call of UnmarshalRequest yet
NoUnmarshal == [t |-> "", allowed |-> {}, done |-> FALSE, ok |-> FALSE]

\* no handler has run under PanicRecover
noHandler ==
    /\ panics = <<>>
    /\ recovered = 0

newBroker ==
    /\ reqs = <<>>
    /\ subs = [c \in Conns |-> {}]
    /\ evIn = [c \in Conns |-> {}]
    /\ psLog = <<>>
    /\ eTasks = [c \in Conns |-> {}]
    /\ evPoll = [c \in Conns |-> "listening"]
    /\ evErr = [c \in Conns |-> "nil"]
    /\ evOut = [c \in Conns |-> <<>>]
    /\ evHeld = [c \in Conns |-> NoMsg]
    /\ newClient
    /\ expvars = [ExpiredCalls |-> 0, ExpiredResults |-> 0,
                  FailedPTTLCalls |-> 0,
                  FailedResPayloadUnmarshals |-> 0, FailedPTTLResults |-> 0,
                  FailedEvntPayloadUnmarshals |-> 0]
    /\ proc = [c \in Conns |-> NoMsg]
    /\ sent = [c \in Conns |-> <<>>]
    /\ wire = [c \in Conns |-> <<>>]
    /\ wres = [c \in Conns |-> <<>>]
    /\ wvars = [WriteLockTimeouts |-> 0, WriteLimitExceeded |-> 0]
    /\ lw = NoLimit
    /\ lwLog = <<>>
    /\ noHandler
    /\ listening
    /\ now = 0
    /\ cfg = [CallCap |-> 0, ResultCap |-> 0]
    /\ callList = [u \in URIs |-> <<>>]
    /\ resList = [c \in Conns |-> <<>>]
    /\ tkeys = {}
    /\ callPoll = "polling"
    /\ cIn = {}
    /\ callsOut = <<>>
    /\ worker = NoCall
    /\ invoked = <<>>
    /\ resPoll = [c \in Conns |-> "polling"]
    /\ resErr = [c \in Conns |-> "nil"]
    /\ rIn = [c \in Conns |-> {}]
    /\ resOut = [c \in Conns |-> <<>>]
    /\ resHeld = [c \in Conns |-> NoMsg]

Init ==
    /\ newConn
    /\ ew = [w \in Writers |-> NoWriter]
    /\ newBroker
    /\ um = NoUnmarshal

(***************************************************************************)
(* Conn.Close: the body runs under closeOnce, so only the first call sets  *)
(* CloseErr, closes the two broker handles that exist and closes kill.     *)
(* pscNow / rescNow are the handle fields as Close reads them (ServeConn    *)
(* sets resc and may call Close within the same step).                     *)
(***************************************************************************)
OnceDoMut(done) == TRUE

\* sync.Once.Do runs its function only if it has not run yet
OnceDo(done) == ~done

Close(c, err, pscNow, rescNow) ==
    /\ closeArgs' = [closeArgs EXCEPT ![c] = Append(@, err)]
    /\ IF OnceDo(closeOnce[c])
       THEN /\ closeOnce' = [closeOnce EXCEPT ![c] = TRUE]
            /\ CloseErr' = [CloseErr EXCEPT ![c] = err]
            /\ pscCloses' = [pscCloses EXCEPT
                                ![c] = IF pscNow # "nil" THEN @ + 1 ELSE @]
            /\ rescCloses' = [rescCloses EXCEPT
                                ![c] = IF rescNow # "nil" THEN @ + 1 ELSE @]
            /\ kill' = [kill EXCEPT ![c] = @ + 1]
       ELSE UNCHANGED <<closeOnce, CloseErr, pscCloses, rescCloses, kill>>

\* the variables Close writes, those ServeConn sets up, and the write side
closeVars == <<closeArgs, closeOnce, CloseErr, pscCloses, rescCloses, kill>>
setupVars == <<header, served, servePc, psc, resc, allowedMsgs, loops, connState>>
wireVars == <<wmu, wsOut>>

\* a Close call made by a user of the connection (Close is exported and
\* documented as safe for concurrent use); Close has no precondition, and
\* the ConnState callback has the connection before the handles exist
CloseCall(c, err) ==
    /\ Len(closeArgs[c]) < MaxCloses
    /\ Close(c, err, psc[c], resc[c])
    /\ UNCHANGED <<setupVars, wireVars, ew, rpcVars>>

(***************************************************************************)
(* Server.ServeConn: set the connection up.  The results handle is created *)
(* when CALL is allowed, the pub-sub handle when SUB or UNSB is; a failure *)
(* to create one closes the connection and starts no loop.                 *)
(***************************************************************************)
allReqMsgsMut == {"CALL", "SUB", "UNSB", "PUB", "ACK"}

allReqMsgs == {"CALL", "SUB", "UNSB", "PUB"}

\* the sets of allowed messages a caller of ServeConn passes
AllowedSets == {{}, {"CALL", "PUB"}, {"SUB"}, {"UNSB"}, {"PUB"}}

isInTypeMut(list, v) == TRUE

isInType(list, v) == v \in list

NotifyMut(seq, state) == seq

\* cs(c, state): the ConnState callback is called with the state
Notify(seq, state) == Append(seq, state)

\* the types ServeConn goes by: those it was given, or all if it got none
Effective(c) == IF allowedMsgs[c] = {} THEN allReqMsgs ELSE allowedMsgs[c]

\* ServeConn up to cs(c, Accepting): newConn has made the connection and
\* the ConnState callback is called with it
ServeConn(c, msgs) ==
    /\ ~served[c]
    /\ served' = [served EXCEPT ![c] = TRUE]
    /\ servePc' = [servePc EXCEPT ![c] = "accepting"]
    /\ allowedMsgs' = [allowedMsgs EXCEPT ![c] = msgs]
    /\ connState' = [connState EXCEPT ![c] = Notify(@, "Accepting")]
    /\ UNCHANGED <<psc, resc, loops, closeVars, wireVars, ew, rpcVars>>

\* ServeConn goes on with the results handle: if CALL is allowed,
\* NewResultsConn succeeds (resOK) and the handle is stored in c.resc, or it
\* fails and ServeConn closes the connection and returns
ServeConnResults(c, resOK) ==
    LET callOK == isInType(Effective(c), "CALL")
    IN  /\ servePc[c] = "accepting"
        /\ IF callOK /\ ~resOK
           THEN /\ Close(c, "setup", psc[c], resc[c])
                /\ servePc' = [servePc EXCEPT ![c] = "failed"]
                /\ UNCHANGED resc
           ELSE /\ resc' = [resc EXCEPT ![c] = IF callOK THEN "set" ELSE @]
                /\ servePc' = [servePc EXCEPT ![c] = "results"]
                /\ UNCHANGED closeVars
        /\ UNCHANGED <<header, served, psc, allowedMsgs, loops, connState,
                       wireVars, ew, rpcVars>>

\* ServeConn goes on with the pub-sub handle: if SUB or UNSB is allowed,
\* NewPubSubConn succeeds (psOK) and the handle is stored in c.psc, or it
\* fails and ServeConn closes the connection and returns
ServeConnPubSub(c, psOK) ==
    LET subOK == isInType(Effective(c), "SUB")
        unsbOK == isInType(Effective(c), "UNSB")
    IN  /\ servePc[c] = "results"
        /\ IF (subOK \/ unsbOK) /\ ~psOK
           THEN /\ Close(c, "setup", psc[c], resc[c])
                /\ servePc' = [servePc EXCEPT ![c] = "failed"]
                /\ UNCHANGED psc
           ELSE /\ psc' = [psc EXCEPT
                              ![c] = IF subOK \/ unsbOK THEN "set" ELSE @]
                /\ servePc' = [servePc EXCEPT ![c] = "handles"]
                /\ UNCHANGED closeVars
        /\ UNCHANGED <<header, served, resc, allowedMsgs, loops, connState,
                       wireVars, ew, rpcVars>>

\* with both handles in place the ConnState callback is called with
\* Connected, and returns
ServeConnConnected(c) ==
    /\ servePc[c] = "handles"
    /\ connState' = [connState EXCEPT ![c] = Notify(@, "Connected")]
    /\ servePc' = [servePc EXCEPT ![c] = "connected"]
    /\ UNCHANGED <<header, served, psc, resc, allowedMsgs, loops, closeVars,
                   wireVars, ew, rpcVars>>

\* the go statements: the pub-sub loop if SUB is allowed, the results loop
\* if CALL is, and the receive loop; ServeConn then waits on kill
ServeConnLoops(c) ==
    LET callOK == isInType(Effective(c), "CALL")
        subOK == isInType(Effective(c), "SUB")
    IN  /\ servePc[c] = "connected"
        /\ loops' = [loops EXCEPT
                        ![c] = (IF subOK THEN {"pubSub"} ELSE {})
                               \cup (IF callOK THEN {"results"} ELSE {})
                               \cup {"receive"}]
        /\ servePc' = [servePc EXCEPT ![c] = "serving"]
        /\ UNCHANGED <<header, served, psc, resc, allowedMsgs, connState,
                       closeVars, wireVars, ew, rpcVars>>

\* ServeConn returns, after a failed setup or once kill is closed; its
\* deferred ConnState call runs
ServeConnReturn(c) ==
    /\ servePc[c] = "failed" \/ (servePc[c] = "serving" /\ kill[c] > 0)
    /\ servePc' = [servePc EXCEPT ![c] = "returned"]
    /\ connState' = [connState EXCEPT ![c] = Notify(@, "Closing")]
    /\ UNCHANGED <<header, served, psc, resc, allowedMsgs, loops, closeVars,
                   wireVars, ew, rpcVars>>

(***************************************************************************)
(* Upgrade: the Juggler-Allowed-Messages header of the request selects the *)
(* message types handed to ServeConn.  A header value is a sequence of     *)
(* one-character strings; an absent header reads as the empty value.       *)
(***************************************************************************)
UpperCase == <<"A", "B", "C", "L", "N", "P", "S", "U">>
LowerCase == <<"a", "b", "c", "l", "n", "p", "s", "u">>

\* strings.ToLower, on the letters of the header values
ToLowerChar(ch) ==
    IF \E i \in 1..Len(UpperCase) : UpperCase[i] = ch
    THEN LowerCase[CHOOSE i \in 1..Len(UpperCase) : UpperCase[i] = ch]
    ELSE ch

ToLower(str) == [i \in 1..Len(str) |-> ToLowerChar(str[i])]

\* strings.TrimSpace
RECURSIVE TrimSpace(_)
TrimSpace(str) ==
    IF str = <<>> THEN str
    ELSE IF Head(str) = " " THEN TrimSpace(Tail(str))
    ELSE IF str[Len(str)] = " " THEN TrimSpace(SubSeq(str, 1, Len(str) - 1))
    ELSE str

\* strings.Split(str, ","): the substrings between the commas
RECURSIVE Split(_)
Split(str) ==
    IF \E i \in 1..Len(str) : str[i] = ","
    THEN LET i == CHOOSE k \in 1..Len(str) :
                      str[k] = "," /\ \A j \in 1..(k - 1) : str[j] # ","
         IN  <<SubSeq(str, 1, i - 1)>> \o Split(SubSeq(str, i + 1, Len(str)))
    ELSE <<str>>

\* the switch of Upgrade: the message type a list item names, if any
TypeOf(typ) ==
    IF typ = <<"c", "a", "l", "l">> THEN {"CALL"}
    ELSE IF typ = <<"s", "u", "b">> THEN {"SUB"}
    ELSE IF typ = <<"u", "n", "s", "b">> THEN {"UNSB"}
    ELSE IF typ = <<"p", "u", "b">> THEN {"PUB"}
    ELSE {}

\* the message types Upgrade hands to ServeConn for a header value
ParseAllowed(h) ==
    LET allowed == TrimSpace(h)
        types == Split(allowed)
    IN  IF allowed # <<>> /\ allowed # <<"*">>
        THEN UNION {TypeOf(TrimSpace(ToLower(types[i]))) : i \in 1..Len(types)}
        ELSE {}

\* the header values of the requests: absent, "*", "call", "CALL, pub",
\* " sub ,Unsb", "bogus"
Headers ==
    { <<>>,
      <<"*">>,
      <<"c", "a", "l", "l">>,
      <<"C", "A", "L", "L", ",", " ", "p", "u", "b">>,
      <<" ", "s", "u", "b", " ", ",", "U", "n", "s", "b">>,
      <<"b", "o", "g", "u", "s">> }

\* the handler of Upgrade: the websocket is served with the parsed types
Upgrade(c, h) ==
    /\ ServeConn(c, ParseAllowed(h))
    /\ header' = [header EXCEPT ![c] = h]

(***************************************************************************)
(* wswriter.Exclusive: the one-shot writer Conn.Writer returns.            *)
(*   pc: "none" not created, "idle" between calls, "waiting" in the select *)
(*   of the first Write, "closed" after Close, "panicked" after a Write on *)
(*   the nil frame writer left by a failed NextWriter.                     *)
(***************************************************************************)
Writer(c, w, timeout) ==
    /\ ew[w].pc = "none"
    /\ ew' = [ew EXCEPT ![w] = [NoWriter EXCEPT !.conn = c, !.pc = "idle",
                                                !.lockTimeout = timeout]]
    /\ UNCHANGED <<connVars, rpcVars>>

LockFreeMut(n) == TRUE

\* case <-w.writeLock: a receive from the lock channel needs a token in it
LockFree(n) == n > 0

\* the first Write enters the select on the timer and the lock channel
WriteSelect(w) ==
    /\ ew[w].pc = "idle"
    /\ ~ew[w].init
    /\ ew[w].writes < MaxWrites
    /\ ew' = [ew EXCEPT ![w].pc = "waiting", ![w].waited = 0,
                        ![w].writes = @ + 1]
    /\ UNCHANGED <<connVars, rpcVars>>

\* the select takes the lock; NextWriter succeeds (nwOK) or fails
WriteAcquire(w, nwOK) ==
    LET c == ew[w].conn IN
    /\ ew[w].pc = "waiting"
    /\ LockFree(wmu[c])
    /\ wmu' = [wmu EXCEPT ![c] = @ - 1]
    /\ IF nwOK
       THEN /\ ew' = [ew EXCEPT ![w].pc = "idle", ![w].init = TRUE,
                               ![w].w = "set", ![w].wrote = @ + 1,
                               ![w].err = "nil"]
            /\ wsOut' = [wsOut EXCEPT ![c] = Append(@, w)]
       ELSE /\ ew' = [ew EXCEPT ![w].pc = "idle", ![w].init = TRUE,
                               ![w].err = "NextWriter"]
            /\ UNCHANGED wsOut
    /\ UNCHANGED <<setupVars, closeVars, rpcVars>>

\* the select takes the timer: no lock, no byte
WriteLockTimeout(w) ==
    /\ ew[w].pc = "waiting"
    /\ ew[w].lockTimeout > 0
    /\ ew[w].waited >= ew[w].lockTimeout
    /\ ew' = [ew EXCEPT ![w].pc = "idle", ![w].err = "ErrWriteLockTimeout"]
    /\ UNCHANGED <<connVars, rpcVars>>

\* a later Write of a writer that holds the lock goes to the frame writer;
\* with the nil frame writer of a failed NextWriter it panics
WriteNext(w) ==
    LET c == ew[w].conn IN
    /\ ew[w].pc = "idle"
    /\ ew[w].init
    /\ ew[w].writes < MaxWrites
    /\ IF ew[w].w = "set"
       THEN /\ ew' = [ew EXCEPT ![w].writes = @ + 1, ![w].wrote = @ + 1,
                               ![w].err = "nil"]
            /\ wsOut' = [wsOut EXCEPT ![c] = Append(@, w)]
       ELSE /\ ew' = [ew EXCEPT ![w].pc = "panicked"]
            /\ UNCHANGED wsOut
    /\ UNCHANGED <<setupVars, closeVars, wmu, rpcVars>>

ReleasesMut(wr) == TRUE

\* exclusiveWriter.Close returns early, releasing nothing, if !w.init
Releases(wr) == wr.init

\* exclusiveWriter.Close; the send on the lock channel blocks while it is full
WriterClose(w) ==
    LET c == ew[w].conn IN
    /\ ew[w].pc = "idle"
    /\ IF Releases(ew[w])
       THEN /\ wmu[c] < 1
            /\ wmu' = [wmu EXCEPT ![c] = @ + 1]
       ELSE UNCHANGED wmu
    /\ ew' = [ew EXCEPT ![w].pc = "closed"]
    /\ UNCHANGED <<setupVars, closeVars, wsOut, rpcVars>>

\* time passes for the timers of the writers waiting in their select
TickLock ==
    /\ \E w \in Writers : /\ ew[w].pc = "waiting"
                           /\ ew[w].waited < ew[w].lockTimeout
    /\ ew' = [w \in Writers |->
                IF ew[w].pc = "waiting" /\ ew[w].waited < ew[w].lockTimeout
                THEN [ew[w] EXCEPT !.waited = @ + 1] ELSE ew[w]]
    /\ UNCHANGED <<connVars, rpcVars>>

NextClose ==
    \/ \E c \in CloseConns, msgs \in AllowedSets :
          ServeConn(c, msgs) /\ UNCHANGED header
    \/ \E c \in CloseConns, resOK \in BOOLEAN : ServeConnResults(c, resOK)
    \/ \E c \in CloseConns, psOK \in BOOLEAN : ServeConnPubSub(c, psOK)
    \/ \E c \in CloseConns : ServeConnConnected(c)
    \/ \E c \in CloseConns : ServeConnLoops(c)
    \/ \E c \in CloseConns : ServeConnReturn(c)
    \/ \E c \in CloseConns, err \in CloseErrs : CloseCall(c, err)

SpecClose == Init /\ [][NextClose]_vars

\* ServeConn runs in the goroutine of its caller, which is scheduled: the
\* ConnState callback and the dials of the broker return, and once kill is
\* closed ServeConn returns
SpecCloseFair ==
    /\ SpecClose
    /\ \A c \in CloseConns :
          /\ WF_vars(\E resOK \in BOOLEAN : ServeConnResults(c, resOK))
          /\ WF_vars(\E psOK \in BOOLEAN : ServeConnPubSub(c, psOK))
          /\ WF_vars(ServeConnConnected(c))
          /\ WF_vars(ServeConnLoops(c))
          /\ WF_vars(ServeConnReturn(c))

NextWriter ==
    \/ \E c \in Conns, w \in Writers, timeout \in 0..MaxLockTimeout :
          Writer(c, w, timeout)
    \/ \E w \in Writers : WriteSelect(w)
    \/ \E w \in Writers, nwOK \in BOOLEAN : WriteAcquire(w, nwOK)
    \/ \E w \in Writers : WriteLockTimeout(w)
    \/ \E w \in Writers : WriteNext(w)
    \/ \E w \in Writers : WriterClose(w)
    \/ TickLock

SpecWriter == Init /\ [][NextWriter]_vars

(***************************************************************************)
(* The store: timeout keys with a PX expiration and the two scripts.       *)
(* Redis counts in milliseconds; a key is live while its expiration time   *)
(* has not passed, PTTL of a live key is the time left (0 in its last      *)
(* millisecond) and PTTL of a missing or expired key is -2.                *)
(***************************************************************************)
NowMs == now \div TicksPerMs

Min(a, b) == IF a < b THEN a ELSE b

SameKey(k, kind, slot, id) == k.kind = kind /\ k.slot = slot /\ k.id = id

\* PTTL KEYS[1]
PTTL(kind, slot, id) ==
    IF \E k \in tkeys : SameKey(k, kind, slot, id) /\ k.exp >= NowMs
    THEN (CHOOSE k \in tkeys : SameKey(k, kind, slot, id)).exp - NowMs
    ELSE -2

\* DEL KEYS[1]
DEL(kind, slot, id) == {k \in tkeys : ~SameKey(k, kind, slot, id)}

\* SET KEYS[1] ARGV[1] PX ARGV[1]
SETPX(kind, slot, id, to) ==
    DEL(kind, slot, id)
        \cup {[kind |-> kind, slot |-> slot, id |-> id, exp |-> NowMs + to]}

LTRIMMut(list, start, stop) == list

\* LTRIM key start stop (0-based, inclusive) of a list of length >= start
LTRIM(list, start, stop) == SubSeq(list, start + 1, Min(Len(list), stop + 1))

\* callOrResScript: set the timeout key, push the payload at the head of the
\* list and, when the list exceeds a positive capacity, trim it and fail
callOrResScript(list, kind, slot, id, to, p, cap) ==
    LET pushed == <<p>> \o list
        res == Len(pushed)
        over == res > cap /\ cap > 0
        diff == res - cap
    IN  [keys |-> SETPX(kind, slot, id, to),
         list |-> IF over THEN LTRIM(pushed, diff, cap + diff) ELSE pushed,
         err |-> IF over THEN "list capacity exceeded" ELSE "nil"]

\* registerCallOrRes: the timeout in whole milliseconds, the default if zero
registerTimeout(timeout) ==
    LET to == timeout \div TicksPerMs
    IN  IF to = 0 THEN DefaultCallTimeoutMs ELSE to

ExpiredMut(pttl) == pttl < 0

\* if pttl <= 0 the payload has expired and is dropped
Expired(pttl) == pttl <= 0

(***************************************************************************)
(* wswriter.Limit: a writer that lets at most limit bytes through to the   *)
(* writer under it.                                                        *)
(***************************************************************************)
notLimit == <<connVars, ew, recvVars, outVars, now, storeVars, psVars, expvars,
              calleeVars, resVars, cliVars, calleeLib, hdlVars>>

\* Limit(w, limit)
Limit(limit) ==
    /\ ~lw.made
    /\ lw' = [made |-> TRUE, n |-> limit, limit |-> limit]
    /\ UNCHANGED <<lwLog, notLimit>>

ExceedsMut(n) == n <= 0

\* the limit is exceeded when n has become negative
Exceeds(n) == n < 0

\* limitedWriter.Write of size bytes: n is reduced first; then the write fails
\* with ErrWriteLimitExceeded, or is passed to the writer under it, which
\* returns cnt bytes and, if it failed, an error
limitedWrite(size, underOK, cnt) ==
    /\ lw.made
    /\ Len(lwLog) < MaxLWrites
    /\ underOK => cnt = size
    /\ LET n == lw.n - size
       IN  /\ lw' = [lw EXCEPT !.n = n]
           /\ lwLog' = Append(lwLog,
                 IF Exceeds(n)
                 THEN [size |-> size, cnt |-> 0, err |-> "write limit exceeded"]
                 ELSE [size |-> size, cnt |-> cnt,
                       err |-> IF underOK THEN "nil" ELSE "write error"])
    /\ UNCHANGED notLimit

NextLimit ==
    \/ \E limit \in 0..MaxLimit : Limit(limit)
    \/ \E size \in 0..MaxPayload, underOK \in BOOLEAN, cnt \in 0..MaxPayload :
          cnt <= size /\ limitedWrite(size, underOK, cnt)

SpecLimit == Init /\ [][NextLimit]_vars

(***************************************************************************)
(* Conn.Send of a response: ProcessMsg hands it to doWrite, which writes   *)
(* it through the exclusive writer (wr = "ok") or closes the connection    *)
(* with the write error.                                                   *)
(***************************************************************************)
WriteResults == {"ok", "write error"}

\* what writeMsg returns: nil, wswriter.ErrWriteLockTimeout,
\* wswriter.ErrWriteLimitExceeded or another error of the websocket
AllWriteResults ==
    {"ok", "write lock timeout", "write limit exceeded", "write error"}

doWriteCountMut(v, err) == v

\* doWrite counts the write-lock timeouts and the exceeded write limits
doWriteCount(v, err) ==
    IF err = "write lock timeout"
    THEN [v EXCEPT !.WriteLockTimeouts = @ + 1]
    ELSE IF err = "write limit exceeded"
    THEN [v EXCEPT !.WriteLimitExceeded = @ + 1]
    ELSE v

doWriteClosesMut(err) == err \in {"write lock timeout", "write limit exceeded"}

\* doWrite closes the connection on every error of writeMsg
doWriteCloses(err) == err # "ok"

Send(c, m, wr) ==
    /\ sent' = [sent EXCEPT ![c] = Append(@, m)]
    /\ wres' = [wres EXCEPT ![c] = Append(@, wr)]
    /\ wvars' = doWriteCount(wvars, wr)
    /\ IF wr = "ok"
       THEN wire' = [wire EXCEPT ![c] = Append(@, m)]
       ELSE UNCHANGED wire
    /\ IF doWriteCloses(wr)
       THEN Close(c, wr, psc[c], resc[c])
       ELSE UNCHANGED closeVars

\* message.NewAck / message.NewNack: the reply copies the request's id and
\* type, and a NACK carries the code and the error's text
NewAck(m) == [t |-> "ACK", for |-> m.id, forType |-> m.t, code |-> 0,
              msg |-> ""]
NewNack(m, code, e) == [t |-> "NACK", for |-> m.id, forType |-> m.t,
                        code |-> code, msg |-> e]
\* message.NewEvnt: the event copies the payload's message id, channel,
\* pattern and args
NewEvnt(ep) == [t |-> "EVNT", for |-> ep.id, forType |-> "PUB", code |-> 0,
                msg |-> "", channel |-> ep.channel, pattern |-> ep.pattern,
                args |-> ep.args]
\* message.NewRes: the reply copies the payload's message id
NewRes(rp) == [t |-> "RES", for |-> rp.id, forType |-> "CALL", code |-> 0,
               msg |-> ""]

(***************************************************************************)
(* The client and the receive loop.                                        *)
(***************************************************************************)
\* a text frame that holds a message of type t
Frame(t) == [mt |-> "text", t |-> t]

\* the frames that are no request: a binary frame, a text frame that is no
\* JSON message, and a response
BadFrames == {[mt |-> "binary", t |-> "CALL"], Frame("garbage"), Frame("ACK")}

UnmarshalRequestMut(f, allowed) == allowed = {} \/ f.t \in allowed

\* message.UnmarshalRequest succeeds on a request type which, if types are
\* given, is one of them
UnmarshalRequest(f, allowed) ==
    f.t \in allReqMsgs /\ (allowed = {} \/ f.t \in allowed)

\* the message types, and the lists of allowed types handed to a call
MsgTypes == {"CALL", "SUB", "UNSB", "PUB", "ACK", "NACK", "RES", "EVNT"}
AllowLists == SUBSET {"CALL", "SUB", "UNSB", "PUB", "ACK"}

\* a message of any type is about to be decoded under any list
InitUnmarshal ==
    /\ newConn
    /\ ew = [w \in Writers |-> NoWriter]
    /\ newBroker
    /\ um \in [t : MsgTypes, allowed : AllowLists, done : {FALSE}, ok : {FALSE}]

\* the call returns: a message and no error, or an error
Unmarshal ==
    /\ ~um.done
    /\ um' = [um EXCEPT !.done = TRUE,
                        !.ok = UnmarshalRequest(Frame(um.t), um.allowed)]
    /\ UNCHANGED <<connVars, ew, recvVars, outVars, now, storeVars, psVars,
                   expvars, calleeVars, resVars, cliVars, lw, lwLog,
                   calleeLib, panics, recovered>>

NextUnmarshal == Unmarshal

SpecUnmarshal == InitUnmarshal /\ [][NextUnmarshal]_vars

RejectsMut(f, allowed) == f.mt # "text" \/ f.t \notin allReqMsgs

\* the receive loop closes the connection on a frame that is not text or
\* that UnmarshalRequest fails on
Rejects(f, allowed) == f.mt # "text" \/ ~UnmarshalRequest(f, allowed)

\* the receive loop reads a frame it rejects: it closes the connection with
\* the error and ends, and the handler is not called
RecvReject(c, f) ==
    /\ "receive" \in loops[c]
    /\ proc[c] = NoMsg
    /\ Rejects(f, allowedMsgs[c])
    /\ Close(c, IF f.mt # "text" THEN "invalid websocket message type"
                ELSE "unmarshal error", psc[c], resc[c])
    /\ loops' = [loops EXCEPT ![c] = @ \ {"receive"}]
    /\ UNCHANGED <<header, served, servePc, psc, resc, allowedMsgs, connState, wireVars,
                   ew, rpcVars>>

\* ProcessMsg builds the call payload from the connection and the message
CallPayload(c, m) == [conn |-> c, id |-> m.id, uri |-> m.uri]

\* the receive loop reads the next frame, a CALL with a fresh message id, and
\* ProcessMsg submits it with Broker.Call; storeOK is false when the store
\* cannot be reached
RecvCall(c, uri, timeout, storeOK) ==
    /\ "receive" \in loops[c]
    /\ proc[c] = NoMsg
    /\ ~Rejects(Frame("CALL"), allowedMsgs[c])
    /\ Len(reqs) < MaxReqs
    /\ LET m == [t |-> "CALL", id |-> Len(reqs) + 1, uri |-> uri,
                 timeout |-> timeout]
           r == callOrResScript(callList[m.uri], "call", m.uri, m.id,
                                registerTimeout(m.timeout), CallPayload(c, m),
                                cfg.CallCap)
           err == IF storeOK THEN r.err ELSE "store error"
       IN  /\ reqs' = Append(reqs, [t |-> "CALL", conn |-> c, err |-> err])
           /\ proc' = [proc EXCEPT ![c] = [t |-> "CALL", id |-> m.id,
                                          err |-> err]]
           /\ IF storeOK
              THEN /\ tkeys' = r.keys
                   /\ callList' = [callList EXCEPT ![m.uri] = r.list]
              ELSE UNCHANGED <<tkeys, callList>>
    /\ UNCHANGED <<connVars, ew, psVars, cliVars, libVars, expvars, outVars, now, cfg, resList, calleeVars, resVars>>

ReplyMut(m) == NewAck(m)

\* ProcessMsg replies to a request with an ACK if its broker operation
\* succeeded and with a NACK that carries code 500 and the error otherwise
Reply(m) == IF m.err = "nil" THEN NewAck(m) ELSE NewNack(m, 500, m.err)

\* ProcessMsg hands the reply of the request to Conn.Send
SendAck(c, wr) ==
    /\ proc[c] # NoMsg
    /\ Send(c, Reply(proc[c]), wr)
    /\ proc' = [proc EXCEPT ![c] = NoMsg]
    /\ UNCHANGED <<setupVars, wireVars, ew, psVars, cliVars, libVars, expvars, reqs, now, storeVars,
                   calleeVars, resVars>>

\* NextReader fails (the peer is gone or the websocket was closed): the
\* receive loop closes the connection and ends
RecvError(c) ==
    /\ "receive" \in loops[c]
    /\ proc[c] = NoMsg
    /\ Close(c, "read error", psc[c], resc[c])
    /\ loops' = [loops EXCEPT ![c] = @ \ {"receive"}]
    /\ UNCHANGED <<header, served, servePc, psc, resc, allowedMsgs, connState, wireVars, ew, rpcVars>>

(***************************************************************************)
(* The pub-sub requests.  PUBLISH delivers the event to every pub-sub      *)
(* handle with a matching subscription: as a Message to a channel          *)
(* subscription and as a PMessage to each matching pattern subscription.   *)
(***************************************************************************)
\* the glob match of the store, for the patterns of SubChannels
GlobMatch(pattern, ch) == pattern = "*" \/ pattern = ch

\* a subscription matches the channel an event is published on
Match(sub, ch) ==
    IF sub.pattern THEN GlobMatch(sub.channel, ch) ELSE sub.channel = ch

\* what PUBLISH channel hands to one pub-sub handle: Receive returns a
\* Message with the channel, or a PMessage with the channel and the pattern
Delivered(ss, ch, id, args) ==
    {[channel |-> ch, data |-> [id |-> id, args |-> args],
      pattern |-> IF sub.pattern THEN sub.channel ELSE ""] :
        sub \in {x \in ss : Match(x, ch)}}

\* Broker.Publish: PUBLISH on the store reaches the handles that are open
Publish(ch, id, args) ==
    [d \in Conns |-> IF pscCloses[d] = 0
                     THEN evIn[d] \cup Delivered(subs[d], ch, id, args)
                     ELSE evIn[d]]

\* the receive loop reads a PUB and ProcessMsg submits it with
\* Broker.Publish; opOK is false when the store cannot be reached
RecvPub(c, ch, args, opOK) ==
    /\ "receive" \in loops[c]
    /\ proc[c] = NoMsg
    /\ ~Rejects(Frame("PUB"), allowedMsgs[c])
    /\ Len(reqs) < MaxReqs
    /\ LET id == Len(reqs) + 1
           err == IF opOK THEN "nil" ELSE "store error"
       IN  /\ reqs' = Append(reqs, [t |-> "PUB", conn |-> c, err |-> err])
           /\ proc' = [proc EXCEPT ![c] = [t |-> "PUB", id |-> id, err |-> err]]
           /\ IF opOK
              THEN /\ evIn' = Publish(ch, id, args)
                   /\ psLog' = Append(psLog, [op |-> "PUBLISH", conn |-> c,
                                              channel |-> ch, pattern |-> FALSE,
                                              id |-> id, args |-> args])
              ELSE UNCHANGED <<evIn, psLog>>
    /\ UNCHANGED <<connVars, ew, subs, evLoopVars, cliVars, libVars, expvars, outVars, now, storeVars,
                   calleeVars, resVars>>

\* pubSubConn.subUnsub: (P)SUBSCRIBE or (P)UNSUBSCRIBE on the handle
subUnsub(ss, ch, pat, sub) ==
    IF sub THEN ss \cup {[channel |-> ch, pattern |-> pat]}
    ELSE ss \ {[channel |-> ch, pattern |-> pat]}

\* the receive loop reads a SUB (sub = TRUE) or an UNSB (sub = FALSE) and
\* ProcessMsg runs it on the connection's pub-sub handle; the command fails
\* on a closed handle, and opOK is false when it fails for another reason
RecvSubUnsb(c, ch, pat, sub, opOK) ==
    /\ "receive" \in loops[c]
    /\ proc[c] = NoMsg
    /\ ~Rejects(Frame(IF sub THEN "SUB" ELSE "UNSB"), allowedMsgs[c])
    /\ Len(reqs) < MaxReqs
    /\ LET id == Len(reqs) + 1
           t == IF sub THEN "SUB" ELSE "UNSB"
           ok == opOK /\ pscCloses[c] = 0
           err == IF ok THEN "nil" ELSE "pubsub error"
       IN  /\ reqs' = Append(reqs, [t |-> t, conn |-> c, err |-> err])
           /\ proc' = [proc EXCEPT ![c] = [t |-> t, id |-> id, err |-> err]]
           /\ IF ok
              THEN /\ subs' = [subs EXCEPT ![c] = subUnsub(@, ch, pat, sub)]
                   /\ psLog' = Append(psLog, [op |-> IF sub THEN "SUBSCRIBE"
                                                     ELSE "UNSUBSCRIBE",
                                              conn |-> c, channel |-> ch,
                                              pattern |-> pat, id |-> id,
                                              args |-> ""])
              ELSE UNCHANGED <<subs, psLog>>
    /\ UNCHANGED <<connVars, ew, evIn, evLoopVars, cliVars, libVars, expvars, outVars, now, storeVars,
                   calleeVars, resVars>>

(***************************************************************************)
(* callsConn.Calls: the loop pops with BRPOP and starts one task per       *)
(* payload, which reads and deletes the timeout key and delivers the       *)
(* payload unless it has expired.  cIn holds the tasks waiting to send.    *)
(***************************************************************************)
\* the first key of a BRPOP whose list is not empty (0 if there is none)
RECURSIVE FirstNonEmpty(_, _)
FirstNonEmpty(keys, i) ==
    IF i > Len(keys) THEN 0
    ELSE IF callList[keys[i]] # <<>> THEN i
    ELSE FirstNonEmpty(keys, i + 1)

Last(list) == list[Len(list)]
FrontMut(list) == <<>>

\* the list after BRPOP has popped its last element
Front(list) == SubSeq(list, 1, Len(list) - 1)

\* what the task of a popped payload meets: the payload does not unmarshal,
\* delAndPTTLScript fails, or both succeed
PopOutcomes == {"ok", "decode error", "script error"}
ScriptOutcomes == {"ok", "script error"}

\* the counter of a payload dropped for a failure, by stream
FailVar(stream, how) ==
    IF stream = "call" THEN "FailedPTTLCalls"
    ELSE (IF how = "decode error" THEN "FailedResPayloadUnmarshals"
          ELSE "FailedPTTLResults")

\* Calls only logs a payload that does not unmarshal, sendResult counts it
Counts(stream, how) == ~(stream = "call" /\ how = "decode error")

\* the task of a payload BRPOP has just popped: nothing was read of it
\* yet; was records, for the claims, the PTTL its timeout key had at the pop
Popped(p, was) == [p |-> p, pttl |-> 0, pc |-> "popped", was |-> was]

\* the task of an unexpired payload, about to send it on the stream with
\* the pttl its script returned
Ready(p, pttl) == [p |-> p, pttl |-> pttl, pc |-> "ready", was |-> pttl]

\* one round of the Calls loop: BRPOP pops a payload and a task is started
\* for it
Calls ==
    /\ callPoll = "polling"
    /\ ~cc.closed
    /\ FirstNonEmpty(ListenURIs, 1) # 0
    /\ LET u == ListenURIs[FirstNonEmpty(ListenURIs, 1)]
           p == Last(callList[u])
       IN  /\ callList' = [callList EXCEPT ![u] = Front(@)]
           /\ cIn' = cIn \cup {Popped(p, PTTL("call", p.uri, p.id))}
    /\ UNCHANGED <<connVars, ew, psVars, cliVars, libVars, recvVars, outVars,
                   now, cfg, resList, tkeys, expvars, callPoll, callsOut,
                   worker, invoked, resVars>>

\* the task of a popped payload runs: it unmarshals the payload and runs
\* delAndPTTLScript on the call's timeout key; a payload that fails either
\* is dropped (and counted, for the script), an expired one is counted and
\* dropped, and an unexpired payload waits to be sent on the stream
CallsTask(g, how) ==
    /\ g \in cIn
    /\ g.pc = "popped"
    /\ LET p == g.p
           pttl == PTTL("call", p.uri, p.id)
       IN  IF how # "ok"
           THEN /\ expvars' = IF Counts("call", how)
                                THEN [expvars EXCEPT ![FailVar("call", how)] = @ + 1]
                                ELSE expvars
                /\ cIn' = cIn \ {g}
                /\ UNCHANGED tkeys
           ELSE /\ tkeys' = DEL("call", p.uri, p.id)
                /\ IF Expired(pttl)
                   THEN /\ expvars' = [expvars EXCEPT !.ExpiredCalls = @ + 1]
                        /\ cIn' = cIn \ {g}
                   ELSE /\ cIn' = (cIn \ {g}) \cup {Ready(p, pttl)}
                        /\ UNCHANGED expvars
    /\ UNCHANGED <<connVars, ew, psVars, cliVars, libVars, recvVars, outVars,
                   now, cfg, callList, resList, callPoll, callsOut, worker,
                   invoked, resVars>>

\* what a task does with the reply it reads for its script: nothing to
\* send if it says expired, or else the payload to send with the reply as
\* its pttl; own is the PTTL the task's own key had when its script ran
CrossOutcome(g, own, read) ==
    IF Expired(read) THEN {}
    ELSE {[p |-> g.p, pttl |-> read, pc |-> "ready", was |-> own]}

\* the tasks of two popped payloads run delAndPTTLScript at the same time
\* on the connection they share with the loop, and each reads the integer
\* reply meant for the other: redis has run both scripts, and each task
\* goes by the PTTL of the other's key
CallsCross(g1, g2) ==
    /\ g1 \in cIn /\ g2 \in cIn
    /\ g1 # g2
    /\ g1.pc = "popped" /\ g2.pc = "popped"
    /\ LET t1 == PTTL("call", g1.p.uri, g1.p.id)
           t2 == PTTL("call", g2.p.uri, g2.p.id)
           expired == (IF Expired(t2) THEN 1 ELSE 0)
                      + (IF Expired(t1) THEN 1 ELSE 0)
       IN  /\ tkeys' = {k \in tkeys :
                           /\ ~SameKey(k, "call", g1.p.uri, g1.p.id)
                           /\ ~SameKey(k, "call", g2.p.uri, g2.p.id)}
           /\ expvars' = [expvars EXCEPT !.ExpiredCalls = @ + expired]
           /\ cIn' = (cIn \ {g1, g2}) \cup CrossOutcome(g1, t1, t2)
                                        \cup CrossOutcome(g2, t2, t1)
    /\ UNCHANGED <<connVars, ew, psVars, cliVars, libVars, recvVars, outVars,
                   now, cfg, callList, resList, callPoll, callsOut, worker,
                   invoked, resVars>>

(***************************************************************************)
(* The callee: Listen receives a payload from the Calls stream and runs    *)
(* InvokeAndStoreResult on it.                                             *)
(***************************************************************************)
\* the task's send on the Calls stream meets the callee's receive; the
\* payload carries TTLAfterRead = pttl milliseconds and the thunk starts
\* the payload a task sends on the stream: unmarshalled, with its
\* TTLAfterRead set from the pttl the script returned
ReadPayload(g) == [conn |-> g.p.conn, id |-> g.p.id, uri |-> g.p.uri,
                   TTLAfterRead |-> g.pttl * TicksPerMs, pttl |-> g.pttl]

CalleeTake(g) ==
    /\ g \in cIn
    /\ g.pc = "ready"
    /\ lsn.pc = "listening"
    /\ worker = NoCall
    /\ LET cp == ReadPayload(g)
       IN  /\ callsOut' = Append(callsOut, cp)
           /\ worker' = [id |-> cp.id, cp |-> cp, start |-> now,
                         fn |-> lsn.m[cp.uri]]
    /\ cIn' = cIn \ {g}
    /\ UNCHANGED <<connVars, ew, psVars, cliVars, libVars, expvars, recvVars, outVars, now, storeVars, callPoll,
                   invoked, resVars>>

ResPayloadMut(cp) == [conn |-> "c1", id |-> cp.id, uri |-> cp.uri]

\* storeResult builds the result payload from the call payload
ResPayload(cp) == [conn |-> cp.conn, id |-> cp.id, uri |-> cp.uri]

StoresMut(remain) == remain >= 0

\* InvokeAndStoreResult stores the result if remain > 0
Stores(remain) == remain > 0

\* InvokeAndStoreResult on the payload cp received at start: the record of
\* the invocation, and the store's keys and list if storeResult wrote them
invokeAndStore(cp, fn, start, marshalOK, storeOK) ==
    LET remain == cp.TTLAfterRead - (now - start)
        rp == ResPayload(cp)
        r == callOrResScript(resList[rp.conn], "res", rp.conn, rp.id,
                             registerTimeout(remain), rp, cfg.ResultCap)
        called == Stores(remain) /\ marshalOK
        ret == IF ~Stores(remain) THEN "ErrCallExpired"
               ELSE IF ~marshalOK THEN "marshal error"
               ELSE IF ~storeOK THEN "store error"
               ELSE r.err
    IN  [inv |-> [id |-> cp.id, fn |-> fn, remain |-> remain,
                  marshal |-> marshalOK,
                  result |-> called, ret |-> ret,
                  stored |-> called /\ storeOK /\ r.err = "nil",
                  to |-> IF called THEN registerTimeout(remain) ELSE 0],
         wrote |-> called /\ storeOK, conn |-> rp.conn,
         keys |-> r.keys, list |-> r.list]

\* the thunk returns; marshalOK is false when its value does not marshal to
\* JSON, storeOK is false when the store cannot be reached
InvokeAndStoreResult(marshalOK, storeOK) ==
    /\ worker # NoCall
    /\ LET o == invokeAndStore(worker.cp, worker.fn, worker.start,
                               marshalOK, storeOK)
       IN  /\ invoked' = Append(invoked, o.inv)
           /\ IF o.wrote
              THEN /\ tkeys' = o.keys
                   /\ resList' = [resList EXCEPT ![o.conn] = o.list]
              ELSE UNCHANGED <<tkeys, resList>>
    /\ worker' = NoCall
    /\ UNCHANGED <<connVars, ew, psVars, cliVars, libVars, expvars, recvVars, outVars, now, cfg, callList, callPoll,
                   cIn, callsOut, resVars>>

(***************************************************************************)
(* resultsConn: pollResults pops with BRPOP and starts a sendResult task   *)
(* per payload; Conn.results hands each delivered payload to Conn.Send.    *)
(***************************************************************************)
\* one round of pollResults: BRPOP pops a payload and a sendResult task is
\* started for it
pollResults(c) ==
    /\ "results" \in loops[c]
    /\ resPoll[c] = "polling"
    /\ rescCloses[c] = 0
    /\ resList[c] # <<>>
    /\ resList' = [resList EXCEPT ![c] = Front(@)]
    /\ LET p == Last(resList[c])
       IN  rIn' = [rIn EXCEPT ![c] =
                      @ \cup {Popped(p, PTTL("res", p.conn, p.id))}]
    /\ UNCHANGED <<connVars, ew, psVars, cliVars, libVars, recvVars, outVars,
                   now, cfg, callList, tkeys, expvars, calleeVars, resPoll,
                   resErr, resOut, resHeld>>

\* sendResult: the task unmarshals its payload and runs delAndPTTLScript,
\* on a connection of the pool, on the result's timeout key; a payload
\* that fails either is counted and dropped, an expired one too, and an
\* unexpired payload waits to be sent on the stream
sendResult(c, g, how) ==
    /\ g \in rIn[c]
    /\ g.pc = "popped"
    /\ LET p == g.p
           pttl == PTTL("res", p.conn, p.id)
       IN  IF how # "ok"
           THEN /\ expvars' = [expvars EXCEPT ![FailVar("res", how)] = @ + 1]
                /\ rIn' = [rIn EXCEPT ![c] = @ \ {g}]
                /\ UNCHANGED tkeys
           ELSE /\ tkeys' = DEL("res", p.conn, p.id)
                /\ IF Expired(pttl)
                   THEN /\ expvars' = [expvars EXCEPT !.ExpiredResults = @ + 1]
                        /\ rIn' = [rIn EXCEPT ![c] = @ \ {g}]
                   ELSE /\ rIn' = [rIn EXCEPT ![c] =
                                      (@ \ {g}) \cup {Ready(p, pttl)}]
                        /\ UNCHANGED expvars
    /\ UNCHANGED <<connVars, ew, psVars, cliVars, libVars, recvVars, outVars,
                   now, cfg, callList, resList, calleeVars, resPoll, resErr,
                   resOut, resHeld>>

\* Conn.results receives a payload from the Results stream: the task that
\* sent it is done
results(c, g) ==
    /\ "results" \in loops[c]
    /\ resPoll[c] # "closed"
    /\ resHeld[c] = NoMsg
    /\ g \in rIn[c]
    /\ g.pc = "ready"
    /\ rIn' = [rIn EXCEPT ![c] = @ \ {g}]
    /\ resOut' = [resOut EXCEPT ![c] = Append(@, [id |-> g.p.id, conn |-> g.p.conn,
                                                 pttl |-> g.pttl])]
    /\ resHeld' = [resHeld EXCEPT ![c] = NewRes(g.p)]
    /\ UNCHANGED <<connVars, ew, psVars, cliVars, libVars, expvars, recvVars,
                   outVars, now, storeVars, calleeVars, resPoll, resErr>>

\* Conn.results hands the RES of the payload it received to Conn.Send
resultsSend(c, wr) ==
    /\ resHeld[c] # NoMsg
    /\ Send(c, resHeld[c], wr)
    /\ resHeld' = [resHeld EXCEPT ![c] = NoMsg]
    /\ UNCHANGED <<setupVars, wireVars, ew, psVars, cliVars, libVars, expvars,
                   recvVars, now, storeVars, calleeVars, resPoll, resErr, rIn,
                   resOut>>

WaitDoneMut(tasks) == TRUE

\* wg.Wait returns when every sendResult task has finished
WaitDone(tasks) == tasks = {}

\* a loop that has recorded its error calls wg.Wait: it blocks while tasks
\* are in flight, with its stream still open, and otherwise returns, and the
\* deferred close closes the stream
Stopped(tasks) == IF WaitDone(tasks) THEN "closed" ELSE "stopping"

\* BRPOP fails on the closed results handle: pollResults records the error
\* and waits for its tasks, if any
pollResultsStop(c) ==
    /\ resPoll[c] = "polling"
    /\ "results" \in loops[c]
    /\ rescCloses[c] > 0
    /\ resPoll' = [resPoll EXCEPT ![c] = Stopped(rIn[c])]
    /\ resErr' = [resErr EXCEPT ![c] = "closed handle"]
    /\ UNCHANGED <<connVars, ew, psVars, cliVars, libVars, expvars, recvVars, outVars, now, storeVars, calleeVars,
                   rIn, resOut, resHeld>>

\* the store fails under the open results handle: BRPOP returns an error
\* that is not ErrNil and pollResults stops as it does on a closed handle
pollResultsFail(c) ==
    /\ resPoll[c] = "polling"
    /\ "results" \in loops[c]
    /\ rescCloses[c] = 0
    /\ resPoll' = [resPoll EXCEPT ![c] = Stopped(rIn[c])]
    /\ resErr' = [resErr EXCEPT ![c] = "store error"]
    /\ UNCHANGED <<connVars, ew, psVars, cliVars, libVars, expvars, recvVars,
                   outVars, now, storeVars, calleeVars, rIn, resOut, resHeld>>

\* wg.Wait returns and pollResults returns: the deferred close closes the
\* Results stream
pollResultsClose(c) ==
    /\ resPoll[c] = "stopping"
    /\ WaitDone(rIn[c])
    /\ resPoll' = [resPoll EXCEPT ![c] = "closed"]
    /\ UNCHANGED <<connVars, ew, psVars, cliVars, libVars, expvars, recvVars,
                   outVars, now, storeVars, calleeVars, resErr, rIn, resOut,
                   resHeld>>

ResultsErrMut(c) == "nil"

\* resultsConn.ResultsErr
ResultsErr(c) == resErr[c]

\* Conn.results sees the stream closed and closes the connection
resultsEnd(c) ==
    /\ "results" \in loops[c]
    /\ resPoll[c] = "closed"
    /\ resHeld[c] = NoMsg
    /\ Close(c, ResultsErr(c), psc[c], resc[c])
    /\ loops' = [loops EXCEPT ![c] = @ \ {"results"}]
    /\ UNCHANGED <<header, served, servePc, psc, resc, allowedMsgs, connState, wireVars, ew, rpcVars>>

(***************************************************************************)
(* The pub-sub handle used directly: Subscribe and Unsubscribe on a        *)
(* pubSubConn, Broker.Publish, the listen loop behind Events, which starts *)
(* one sendEvent task per message, and the receiver of the Events stream.  *)
(***************************************************************************)
pubSubVars == <<subs, evIn, psLog, evLoopVars, pscCloses>>
notEvents == <<served, servePc, psc, resc, rescCloses, closeOnce, kill, CloseErr,
               closeArgs, wmu, wsOut, allowedMsgs, loops, connState, header,
               ew, recvVars, outVars, now, storeVars, calleeVars,
               resVars, cliVars, libVars>>
notPubSub == <<notEvents, expvars>>

\* Subscribe (sub = TRUE) or Unsubscribe (sub = FALSE) on the open handle d;
\* on a closed handle the command fails and changes nothing
Subscribe(d, ch, pat, sub) ==
    /\ Len(psLog) < MaxPsOps
    /\ pscCloses[d] = 0
    /\ subs' = [subs EXCEPT ![d] = subUnsub(@, ch, pat, sub)]
    /\ psLog' = Append(psLog, [op |-> IF sub THEN "SUBSCRIBE" ELSE "UNSUBSCRIBE",
                               conn |-> d, channel |-> ch, pattern |-> pat,
                               id |-> Len(psLog) + 1, args |-> ""])
    /\ UNCHANGED <<evIn, evLoopVars, pscCloses, notPubSub>>

\* Broker.Publish of a payload with a fresh message id
BrokerPublish(ch, args) ==
    /\ Len(psLog) < MaxPsOps
    /\ evIn' = Publish(ch, Len(psLog) + 1, args)
    /\ psLog' = Append(psLog, [op |-> "PUBLISH", conn |-> "broker",
                               channel |-> ch, pattern |-> FALSE,
                               id |-> Len(psLog) + 1, args |-> args])
    /\ UNCHANGED <<subs, evLoopVars, pscCloses, notPubSub>>

\* the data of a message that is not the JSON of a PubPayload: another
\* client of the store published it, not Broker.Publish
NotJSON(n) == [id |-> 0 - n, args |-> "(not JSON)"]

\* another client of the store publishes such data on a channel
RawPublish(ch) ==
    /\ Len(psLog) < MaxPsOps
    /\ evIn' = Publish(ch, NotJSON(Len(psLog) + 1).id,
                       NotJSON(Len(psLog) + 1).args)
    /\ psLog' = Append(psLog, [op |-> "RAW PUBLISH", conn |-> "other",
                               channel |-> ch, pattern |-> FALSE,
                               id |-> NotJSON(Len(psLog) + 1).id,
                               args |-> NotJSON(Len(psLog) + 1).args])
    /\ UNCHANGED <<subs, evLoopVars, pscCloses, notPubSub>>

\* pubSubConn.Close
PubSubClose(d) ==
    /\ pscCloses[d] = 0
    /\ pscCloses' = [pscCloses EXCEPT ![d] = 1]
    /\ UNCHANGED <<subs, evIn, psLog, evLoopVars, notPubSub>>

\* one round of listen: Receive returns a message and a sendEvent task is
\* started for it (a message read before the handle was closed may still be
\* returned after)
listen(d, m) ==
    /\ evPoll[d] = "listening"
    /\ m \in evIn[d]
    /\ evIn' = [evIn EXCEPT ![d] = @ \ {m}]
    /\ eTasks' = [eTasks EXCEPT ![d] = @ \cup {m}]
    /\ UNCHANGED <<subs, psLog, evPoll, evErr, evOut, evHeld, pscCloses, notPubSub>>

\* Receive fails on the closed handle: listen records the error and waits
\* for its tasks, if any
listenStop(d) ==
    /\ evPoll[d] = "listening"
    /\ pscCloses[d] > 0
    /\ evPoll' = [evPoll EXCEPT ![d] = Stopped(eTasks[d])]
    /\ evErr' = [evErr EXCEPT ![d] = "closed handle"]
    /\ UNCHANGED <<subs, evIn, psLog, eTasks, evOut, evHeld, pscCloses, notPubSub>>

\* wg.Wait returns and listen returns: the deferred close closes the Events
\* stream
listenClose(d) ==
    /\ evPoll[d] = "stopping"
    /\ WaitDone(eTasks[d])
    /\ evPoll' = [evPoll EXCEPT ![d] = "closed"]
    /\ UNCHANGED <<subs, evIn, psLog, eTasks, evErr, evOut, evHeld, pscCloses,
                   notPubSub>>

newEvntPayloadMut(channel, pattern, pld) ==
    [id |-> pld.id, channel |-> channel, pattern |-> channel, args |-> pld.args]

\* newEvntPayload: the event of a message, from the published payload
newEvntPayload(channel, pattern, pld) ==
    [id |-> pld.id, channel |-> channel, pattern |-> pattern, args |-> pld.args]

\* json.Unmarshal of the message's data into a PubPayload succeeds
Unmarshals(pld) == pld.args # NotJSON(0).args

\* sendEvent: newEvntPayload unmarshals the published payload and the
\* task's send on the Events stream meets the receive of the reader of the
\* stream
sendEvent(d, m) ==
    /\ m \in eTasks[d]
    /\ Unmarshals(m.data)
    /\ eTasks' = [eTasks EXCEPT ![d] = @ \ {m}]
    /\ evOut' = [evOut EXCEPT ![d] =
                    Append(@, newEvntPayload(m.channel, m.pattern, m.data))]
    /\ UNCHANGED <<subs, evIn, psLog, evPoll, evErr, evHeld, pscCloses, expvars,
                   notEvents>>

\* sendEvent, the payload does not unmarshal: the task counts it and
\* returns without a send
sendEventFail(d, m) ==
    /\ m \in eTasks[d]
    /\ ~Unmarshals(m.data)
    /\ eTasks' = [eTasks EXCEPT ![d] = @ \ {m}]
    /\ expvars' = [expvars EXCEPT !.FailedEvntPayloadUnmarshals = @ + 1]
    /\ UNCHANGED <<subs, evIn, psLog, evPoll, evErr, evOut, evHeld, pscCloses,
                   notEvents>>

\* Conn.pubSub receives a payload from the Events stream: the task that
\* sent it is done
pubSub(c, m) ==
    /\ "pubSub" \in loops[c]
    /\ evPoll[c] # "closed"
    /\ evHeld[c] = NoMsg
    /\ m \in eTasks[c]
    /\ Unmarshals(m.data)
    /\ eTasks' = [eTasks EXCEPT ![c] = @ \ {m}]
    /\ evOut' = [evOut EXCEPT ![c] =
                    Append(@, newEvntPayload(m.channel, m.pattern, m.data))]
    /\ evHeld' = [evHeld EXCEPT ![c] =
                     NewEvnt(newEvntPayload(m.channel, m.pattern, m.data))]
    /\ UNCHANGED <<subs, evIn, psLog, evPoll, evErr, pscCloses, notPubSub>>

\* Conn.pubSub hands the EVNT of the payload it received to Conn.Send
pubSubSend(c, wr) ==
    /\ evHeld[c] # NoMsg
    /\ Send(c, evHeld[c], wr)
    /\ evHeld' = [evHeld EXCEPT ![c] = NoMsg]
    /\ UNCHANGED <<setupVars, wireVars, ew, subs, evIn, psLog, eTasks, evPoll,
                   evErr, evOut, cliVars, libVars, expvars, recvVars, now,
                   storeVars, calleeVars, resVars>>

\* the store fails under the open pub-sub handle: Receive returns an error
\* and listen stops as it does on a closed handle
listenFail(d) ==
    /\ evPoll[d] = "listening"
    /\ pscCloses[d] = 0
    /\ evPoll' = [evPoll EXCEPT ![d] = Stopped(eTasks[d])]
    /\ evErr' = [evErr EXCEPT ![d] = "store error"]
    /\ UNCHANGED <<subs, evIn, psLog, eTasks, evOut, evHeld, pscCloses, notPubSub>>

\* pubSubConn.EventsErr
EventsErr(d) == evErr[d]

\* Conn.pubSub sees the stream closed and closes the connection
pubSubEnd(c) ==
    /\ "pubSub" \in loops[c]
    /\ evPoll[c] = "closed"
    /\ evHeld[c] = NoMsg
    /\ Close(c, EventsErr(c), psc[c], resc[c])
    /\ loops' = [loops EXCEPT ![c] = @ \ {"pubSub"}]
    /\ UNCHANGED <<header, served, servePc, psc, resc, allowedMsgs, connState, wireVars,
                   ew, rpcVars>>

NextPubSub ==
    \/ \E d \in Conns, ch \in SubChannels, pat \in BOOLEAN, sub \in BOOLEAN :
          Subscribe(d, ch, pat, sub)
    \/ \E ch \in Channels, args \in PubArgs : BrokerPublish(ch, args)
    \/ \E ch \in Channels : RawPublish(ch)
    \/ \E d \in Conns : PubSubClose(d)
    \/ \E d \in Conns : \E m \in evIn[d] : listen(d, m)
    \/ \E d \in Conns : listenStop(d)
    \/ \E d \in Conns : listenClose(d)
    \/ \E d \in Conns : \E m \in eTasks[d] : sendEvent(d, m)
    \/ \E d \in Conns : \E m \in eTasks[d] : sendEventFail(d, m)

SpecPubSub == Init /\ [][NextPubSub]_vars

\* a clock tick; redis removes the timeout keys that have expired.  The
\* clock is read only through the timeout keys and the thunk's duration, so
\* it ticks only while one of them is there to observe it.
Tick ==
    /\ now < MaxTime
    /\ \/ tkeys # {}
       \/ worker # NoCall
       \/ \E w \in DOMAIN pool : pool[w].pc = "busy"
    /\ now' = now + 1
    /\ tkeys' = {k \in tkeys : k.exp >= (now + 1) \div TicksPerMs}
    /\ UNCHANGED <<connVars, ew, psVars, cliVars, libVars, expvars, recvVars, outVars, cfg, callList, resList,
                   calleeVars, resVars>>

(***************************************************************************)
(* The callsConn from the callee's side: Calls() and its sync.Once, the    *)
(* stop of the loop and the close of its stream, Callee.Listen, and the    *)
(* workers of a callee that range over the stream themselves.              *)
(***************************************************************************)
MaxNils == 1

\* the maps handed to Listen: empty, or a thunk for each of ListenURIs
ListenMaps == {NoThunks, ThunkMap}

\* the callee's variables apart from the callsConn's
notCallee == <<connVars, ew, psVars, cliVars, lw, lwLog, hdlVars, expvars, recvVars,
               outVars, now, storeVars, resVars>>

\* Calls(): the function of once.Do makes the channel and starts the loop
CallsOnce(conn) ==
    IF OnceDo(conn.once)
    THEN [conn EXCEPT !.once = TRUE, !.ch = @ + 1, !.pollers = @ + 1]
    ELSE conn

\* Callee.Listen(m): nothing to do for an empty map; otherwise NewCallsConn
\* (connOK is false when it fails), then the range over conn.Calls()
Listen(m, connOK) ==
    /\ lsn.pc = "none"
    /\ ~cc.made
    /\ IF Cardinality(DOMAIN m) = 0
       THEN /\ lsn' = [pc |-> "returned", ret |-> "nil", m |-> m]
            /\ UNCHANGED <<cc, callsRet, callPoll>>
       ELSE IF ~connOK
       THEN /\ lsn' = [pc |-> "returned", ret |-> "conn error", m |-> m]
            /\ UNCHANGED <<cc, callsRet, callPoll>>
       ELSE /\ lsn' = [pc |-> "listening", ret |-> "nil", m |-> m]
            /\ cc' = CallsOnce(newCallsConn)
            /\ callsRet' = Append(callsRet, cc'.ch)
            /\ callPoll' = "polling"
    /\ UNCHANGED <<notCallee, callErr, pool, otherOut, nils, cIn, callsOut,
                   worker, invoked>>

\* the loop's BRPOP returns ErrNil, no value within the wait: continue
CallsEmpty ==
    /\ callPoll = "polling"
    /\ ~cc.closed
    /\ FirstNonEmpty(ListenURIs, 1) = 0
    /\ nils.calls < MaxNils
    /\ nils' = [nils EXCEPT !.calls = @ + 1]
    /\ UNCHANGED <<notCallee, calleeVars, cc, callErr, callsRet, pool,
                   otherOut, lsn>>

\* BRPOP fails on the closed connection: the loop records the error and
\* waits for its tasks, if any
CallsStop ==
    /\ callPoll = "polling"
    /\ cc.closed
    /\ callPoll' = Stopped(cIn)
    /\ callErr' = "closed handle"
    /\ UNCHANGED <<notCallee, cIn, callsOut, worker, invoked, cc, callsRet,
                   pool, otherOut, lsn, nils>>

\* the store fails under the open connection: BRPOP returns an error that
\* is not ErrNil, and the loop stops in the same way
CallsFail ==
    /\ callPoll = "polling"
    /\ ~cc.closed
    /\ callPoll' = Stopped(cIn)
    /\ callErr' = "store error"
    /\ UNCHANGED <<notCallee, cIn, callsOut, worker, invoked, cc, callsRet,
                   pool, otherOut, lsn, nils>>

\* the task runs its script on the connection the loop is running its next
\* BRPOP on, and the two read each other's reply: redis has run the script,
\* the task reads the reply of BRPOP, counts a failed script and drops its
\* call; the payload that BRPOP popped, if any (lost), is read by no one;
\* the loop reads the script's integer, which is an error that is not
\* ErrNil, and stops
CallsSwap(g, lost) ==
    /\ callPoll = "polling"
    /\ ~cc.closed
    /\ g \in cIn
    /\ g.pc = "popped"
    /\ lost => FirstNonEmpty(ListenURIs, 1) # 0
    /\ tkeys' = DEL("call", g.p.uri, g.p.id)
    /\ expvars' = [expvars EXCEPT !.FailedPTTLCalls = @ + 1]
    /\ cIn' = cIn \ {g}
    /\ callList' = IF lost
                   THEN [callList EXCEPT
                            ![ListenURIs[FirstNonEmpty(ListenURIs, 1)]] = Front(@)]
                   ELSE callList
    /\ callPoll' = Stopped(cIn')
    /\ callErr' = "unexpected reply"
    /\ UNCHANGED <<connVars, ew, psVars, cliVars, lw, lwLog, hdlVars, recvVars,
                   outVars, now, cfg, resList, resVars, callsOut, worker,
                   invoked, cc, callsRet, pool, otherOut, lsn, nils>>

\* wg.Wait returns and the loop returns: the deferred close closes the
\* Calls stream
CallsClose ==
    /\ callPoll = "stopping"
    /\ WaitDone(cIn)
    /\ callPoll' = "closed"
    /\ UNCHANGED <<notCallee, cIn, callsOut, worker, invoked, calleeLib>>

CallsErrMut == "nil"

\* callsConn.CallsErr
CallsErr == callErr

\* Listen's range ends on the closed stream: the deferred conn.Close runs
\* and Listen returns CallsErr
ListenReturn ==
    /\ lsn.pc = "listening"
    /\ callPoll = "closed"
    /\ worker = NoCall
    /\ lsn' = [lsn EXCEPT !.pc = "returned", !.ret = CallsErr]
    /\ cc' = [cc EXCEPT !.closed = TRUE]
    /\ UNCHANGED <<notCallee, calleeVars, callErr, callsRet, pool, otherOut,
                   nils>>

\* a callee that uses the broker itself makes its callsConn
NewCallsConn ==
    /\ lsn.pc = "none"
    /\ ~cc.made
    /\ cc' = newCallsConn
    /\ UNCHANGED <<notCallee, calleeVars, callErr, callsRet, pool, otherOut,
                   lsn, nils>>

\* callsConn.Close, by the callee that made the connection
CallsConnClose ==
    /\ lsn.pc = "none"
    /\ cc.made
    /\ ~cc.closed
    /\ cc' = [cc EXCEPT !.closed = TRUE]
    /\ UNCHANGED <<notCallee, calleeVars, callErr, callsRet, pool, otherOut,
                   lsn, nils>>

\* a worker calls Calls() and keeps the channel it returns
WorkerCalls(w) ==
    /\ lsn.pc = "none"
    /\ cc.made
    /\ pool[w].pc = "start"
    /\ cc' = CallsOnce(cc)
    /\ callsRet' = Append(callsRet, cc'.ch)
    /\ pool' = [pool EXCEPT ![w] = [pc |-> "ready", ch |-> cc'.ch, id |-> 0]]
    /\ callPoll' = IF OnceDo(cc.once) THEN "polling" ELSE callPoll
    /\ UNCHANGED <<notCallee, cIn, callsOut, worker, invoked, callErr,
                   otherOut, lsn, nils>>

\* a task's send on the stream meets the receive of a worker's range
WorkerTake(w, g) ==
    /\ pool[w].pc = "ready"
    /\ pool[w].ch = cc.ch
    /\ g \in cIn
    /\ g.pc = "ready"
    /\ LET cp == ReadPayload(g)
       IN  /\ callsOut' = Append(callsOut, cp)
           /\ pool' = [pool EXCEPT ![w] = [pc |-> "busy", ch |-> @.ch,
                                           id |-> cp.id, cp |-> cp,
                                           start |-> now]]
    /\ cIn' = cIn \ {g}
    /\ UNCHANGED <<notCallee, callPoll, worker, invoked, cc, callErr,
                   callsRet, otherOut, lsn, nils>>

\* the worker's InvokeAndStoreResult returns and its range goes on
WorkerDone(w, marshalOK, storeOK) ==
    /\ pool[w].pc = "busy"
    /\ LET o == invokeAndStore(pool[w].cp, Thunk(pool[w].cp.uri),
                               pool[w].start, marshalOK, storeOK)
       IN  /\ invoked' = Append(invoked, o.inv)
           /\ IF o.wrote
              THEN /\ tkeys' = o.keys
                   /\ resList' = [resList EXCEPT ![o.conn] = o.list]
              ELSE UNCHANGED <<tkeys, resList>>
    /\ pool' = [pool EXCEPT ![w] = [pc |-> "ready", ch |-> @.ch, id |-> 0]]
    /\ UNCHANGED <<connVars, ew, psVars, cliVars, lw, lwLog, hdlVars, expvars,
                   recvVars, outVars, now, cfg, callList, resVars, callPoll,
                   cIn, callsOut, worker, cc, callErr, callsRet, otherOut,
                   lsn, nils>>

\* the worker's range ends on the closed stream
WorkerEnd(w) ==
    /\ pool[w].pc = "ready"
    /\ callPoll = "closed"
    /\ pool' = [pool EXCEPT ![w] = [pc |-> "done", ch |-> @.ch, id |-> 0]]
    /\ UNCHANGED <<notCallee, calleeVars, cc, callErr, callsRet, otherOut,
                   lsn, nils>>

\* the BRPOP of another callee, on a connection of its own, pops the call
OtherCalls ==
    /\ FirstNonEmpty(ListenURIs, 1) # 0
    /\ LET u == ListenURIs[FirstNonEmpty(ListenURIs, 1)]
           p == Last(callList[u])
       IN  /\ callList' = [callList EXCEPT ![u] = Front(@)]
           /\ otherOut' = Append(otherOut, p.id)
    /\ UNCHANGED <<connVars, ew, psVars, cliVars, lw, lwLog, hdlVars, expvars,
                   recvVars, outVars, now, cfg, tkeys, resList, resVars,
                   calleeVars, cc, callErr, callsRet, pool, lsn, nils>>

\* the task of the other callee runs delAndPTTLScript on the timeout key
\* of a call it popped; when the script fails, this step is never taken
\* and the key stays until it expires
OtherScript(k) ==
    /\ k \in tkeys
    /\ k.kind = "call"
    /\ \E i \in 1..Len(otherOut) : otherOut[i] = k.id
    /\ tkeys' = tkeys \ {k}
    /\ UNCHANGED <<connVars, ew, psVars, cliVars, libVars, expvars, recvVars,
                   outVars, now, cfg, callList, resList, calleeVars, resVars>>

\* the BRPOP of pollResults returns ErrNil: continue
pollResultsEmpty(c) ==
    /\ "results" \in loops[c]
    /\ resPoll[c] = "polling"
    /\ rescCloses[c] = 0
    /\ resList[c] = <<>>
    /\ nils.results < MaxNils
    /\ nils' = [nils EXCEPT !.results = @ + 1]
    /\ UNCHANGED <<notCallee, calleeVars, cc, callErr, callsRet, pool,
                   otherOut, lsn>>

\* every connection has been served with all message types allowed, and the
\* broker has one of the configurations
InitServed ==
    /\ served = [c \in Conns |-> TRUE]
    /\ servePc = [c \in Conns |-> "serving"]
    /\ psc = [c \in Conns |-> "set"]
    /\ resc = [c \in Conns |-> "set"]
    /\ pscCloses = [c \in Conns |-> 0]
    /\ rescCloses = [c \in Conns |-> 0]
    /\ closeOnce = [c \in Conns |-> FALSE]
    /\ kill = [c \in Conns |-> 0]
    /\ CloseErr = [c \in Conns |-> "nil"]
    /\ closeArgs = [c \in Conns |-> <<>>]
    /\ wmu = [c \in Conns |-> 1]
    /\ wsOut = [c \in Conns |-> <<>>]
    /\ allowedMsgs = [c \in Conns |-> {}]
    /\ loops = [c \in Conns |-> {"pubSub", "results", "receive"}]
    /\ connState = [c \in Conns |-> <<"Accepting", "Connected">>]
    /\ header = [c \in Conns |-> NoHeader]
    /\ ew = [w \in Writers |-> NoWriter]
    /\ reqs = <<>>
    /\ subs = [c \in Conns |-> {}]
    /\ evIn = [c \in Conns |-> {}]
    /\ psLog = <<>>
    /\ eTasks = [c \in Conns |-> {}]
    /\ evPoll = [c \in Conns |-> "listening"]
    /\ evErr = [c \in Conns |-> "nil"]
    /\ evOut = [c \in Conns |-> <<>>]
    /\ evHeld = [c \in Conns |-> NoMsg]
    /\ newClient
    /\ expvars = [ExpiredCalls |-> 0, ExpiredResults |-> 0,
                  FailedPTTLCalls |-> 0,
                  FailedResPayloadUnmarshals |-> 0, FailedPTTLResults |-> 0,
                  FailedEvntPayloadUnmarshals |-> 0]
    /\ proc = [c \in Conns |-> NoMsg]
    /\ sent = [c \in Conns |-> <<>>]
    /\ wire = [c \in Conns |-> <<>>]
    /\ wres = [c \in Conns |-> <<>>]
    /\ wvars = [WriteLockTimeouts |-> 0, WriteLimitExceeded |-> 0]
    /\ lw = NoLimit
    /\ lwLog = <<>>
    /\ um = NoUnmarshal
    /\ noHandler
    /\ now = 0
    /\ cfg \in BrokerCfgs
    /\ callList = [u \in URIs |-> <<>>]
    /\ resList = [c \in Conns |-> <<>>]
    /\ tkeys = {}
    /\ cIn = {}
    /\ callsOut = <<>>
    /\ worker = NoCall
    /\ invoked = <<>>
    /\ resPoll = [c \in Conns |-> "polling"]
    /\ resErr = [c \in Conns |-> "nil"]
    /\ rIn = [c \in Conns |-> {}]
    /\ resOut = [c \in Conns |-> <<>>]
    /\ resHeld = [c \in Conns |-> NoMsg]

\* ... and the callee runs Listen
InitCall ==
    /\ InitServed
    /\ listening
    /\ callPoll = "polling"

\* ... and the callee has not started: no callsConn, no loop
InitCallee ==
    /\ InitServed
    /\ cc = NoCallsConn
    /\ callErr = "nil"
    /\ callsRet = <<>>
    /\ pool = [w \in PoolWorkers |-> NewWorker]
    /\ otherOut = <<>>
    /\ lsn = [pc |-> "none", ret |-> "nil", m |-> NoThunks]
    /\ nils = NoNils
    /\ callPoll = "idle"

\* the calls of one connection and a callee that either runs Listen or
\* makes a callsConn and ranges over its stream with workers, next to
\* another callee on the same URIs
NextCallee ==
    \/ \E c \in CloseConns, uri \in URIs, timeout \in CallTimeouts :
          RecvCall(c, uri, timeout, TRUE)
    \/ \E c \in CloseConns : SendAck(c, "ok")
    \/ \E m \in ListenMaps, connOK \in BOOLEAN : Listen(m, connOK)
    \/ NewCallsConn
    \/ \E w \in PoolWorkers : WorkerCalls(w)
    \/ Calls
    \/ \E g \in cIn, how \in PopOutcomes : CallsTask(g, how)
    \/ \E g \in cIn, lost \in BOOLEAN : CallsSwap(g, lost)
    \/ \E g1 \in cIn, g2 \in cIn : CallsCross(g1, g2)
    \/ CallsEmpty
    \/ \E g \in cIn : CalleeTake(g)
    \/ \E storeOK \in BOOLEAN : InvokeAndStoreResult(TRUE, storeOK)
    \/ \E w \in PoolWorkers : \E g \in cIn : WorkerTake(w, g)
    \/ \E w \in PoolWorkers : WorkerDone(w, TRUE, TRUE)
    \/ \E w \in PoolWorkers : WorkerEnd(w)
    \/ OtherCalls
    \/ \E k \in tkeys : OtherScript(k)
    \/ CallsConnClose
    \/ CallsStop
    \/ CallsFail
    \/ CallsClose
    \/ ListenReturn
    \/ Tick

SpecCallee == InitCallee /\ [][NextCallee]_vars

\* number of pub-sub commands run while the three streams are followed
MaxStreamPsOps == 2

\* the three streams of one connection and of the callee that runs Listen:
\* their loops pop, drop, deliver, stop and close
NextStreams ==
    \/ \E c \in CloseConns, timeout \in CallTimeouts :
          RecvCall(c, ListenURIs[1], timeout, TRUE)
    \/ \E c \in CloseConns, ch \in Channels :
          Len(psLog) < MaxStreamPsOps /\ RecvPub(c, ch, "x", TRUE)
    \/ \E c \in CloseConns, ch \in Channels :
          Len(psLog) < MaxStreamPsOps /\ RecvSubUnsb(c, ch, FALSE, TRUE, TRUE)
    \/ \E c \in CloseConns : SendAck(c, "ok")
    \/ Calls
    \/ \E g \in cIn, how \in PopOutcomes : CallsTask(g, how)
    \/ \E g \in cIn, lost \in BOOLEAN : CallsSwap(g, lost)
    \/ \E g1 \in cIn, g2 \in cIn : CallsCross(g1, g2)
    \/ CallsEmpty
    \/ \E g \in cIn : CalleeTake(g)
    \/ InvokeAndStoreResult(TRUE, TRUE)
    \/ CallsFail
    \/ CallsClose
    \/ ListenReturn
    \/ \E c \in CloseConns : pollResults(c)
    \/ \E c \in CloseConns : \E g \in rIn[c], how \in PopOutcomes :
          sendResult(c, g, how)
    \/ \E c \in CloseConns : pollResultsEmpty(c)
    \/ \E c \in CloseConns : \E g \in rIn[c] : results(c, g)
    \/ \E c \in CloseConns : resultsSend(c, "ok")
    \/ \E c \in CloseConns : pollResultsStop(c)
    \/ \E c \in CloseConns : pollResultsFail(c)
    \/ \E c \in CloseConns : pollResultsClose(c)
    \/ \E c \in CloseConns : resultsEnd(c)
    \/ \E c \in CloseConns : \E m \in evIn[c] : listen(c, m)
    \/ \E ch \in Channels : Len(psLog) < MaxStreamPsOps /\ RawPublish(ch)
    \/ \E c \in CloseConns : \E m \in eTasks[c] : sendEventFail(c, m)
    \/ \E c \in CloseConns : \E m \in eTasks[c] : pubSub(c, m)
    \/ \E c \in CloseConns : pubSubSend(c, "ok")
    \/ \E c \in CloseConns : listenStop(c)
    \/ \E c \in CloseConns : listenFail(c)
    \/ \E c \in CloseConns : listenClose(c)
    \/ \E c \in CloseConns : pubSubEnd(c)

\* the broker has no capacity limit
InitStreams == InitCall /\ cfg = [CallCap |-> 0, ResultCap |-> 0]

SpecStreams == InitStreams /\ [][NextStreams]_vars

\* the two dequeue loops, of the callee and of one connection, while the
\* clock runs and the keys of the payloads expire
NextDequeue ==
    \/ \E c \in CloseConns, timeout \in CallTimeouts :
          RecvCall(c, ListenURIs[1], timeout, TRUE)
    \/ \E c \in CloseConns : SendAck(c, "ok")
    \/ Calls
    \/ \E g \in cIn, how \in PopOutcomes : CallsTask(g, how)
    \/ \E g \in cIn, lost \in BOOLEAN : CallsSwap(g, lost)
    \/ \E g1 \in cIn, g2 \in cIn : CallsCross(g1, g2)
    \/ CallsEmpty
    \/ \E g \in cIn : CalleeTake(g)
    \/ InvokeAndStoreResult(TRUE, TRUE)
    \/ CallsFail
    \/ CallsClose
    \/ \E c \in CloseConns : pollResults(c)
    \/ \E c \in CloseConns : \E g \in rIn[c], how \in PopOutcomes :
          sendResult(c, g, how)
    \/ \E c \in CloseConns : pollResultsEmpty(c)
    \/ \E c \in CloseConns : \E g \in rIn[c] : results(c, g)
    \/ \E c \in CloseConns : resultsSend(c, "ok")
    \/ \E c \in CloseConns : pollResultsFail(c)
    \/ \E c \in CloseConns : pollResultsClose(c)
    \/ \E c \in CloseConns : resultsEnd(c)
    \/ Tick

SpecDequeue == InitStreams /\ [][NextDequeue]_vars

(***************************************************************************)
(* PanicRecover: the handler runs under a deferred function that calls     *)
(* recover; if recover returns a value it counts RecoveredPanics and       *)
(* closes the connection with the value as an error.                       *)
(***************************************************************************)
MaxPanics == 2

\* the values a handler panics with: an error, strings, and nil
PanicValues == {[kind |-> "error", v |-> "a"], [kind |-> "string", v |-> "a"],
                [kind |-> "string", v |-> "b"], [kind |-> "nil", v |-> ""]}

\* what recover() returns in the deferred function.  For panic(nil) that
\* depends on the build: nil where nil panics are kept as they are (Go
\* before 1.21, and later for code that declares no newer Go version), a
\* runtime.PanicNilError otherwise.
Recover(e, panicnil) ==
    IF e.kind = "nil" /\ ~panicnil
    THEN [kind |-> "error", v |-> "panic called with nil argument"]
    ELSE e

RecoveredMut(r) == TRUE

\* if e := recover(); e != nil
Recovered(r) == r.kind # "nil"

\* the switch on the recovered value: an error as it is, any other value
\* through fmt.Errorf("%v", e); errors are modelled by their message
Coerce(r) == r.v

\* a handler wrapped in PanicRecover is called for a message of connection c
\* and panics with e
PanicRecover(c, e, panicnil) ==
    /\ served[c]
    /\ Len(panics) < MaxPanics
    /\ LET r == Recover(e, panicnil)
       IN  /\ panics' = Append(panics, [conn |-> c, e |-> e, r |-> r])
           /\ IF Recovered(r)
              THEN /\ recovered' = recovered + 1
                   /\ Close(c, Coerce(r), psc[c], resc[c])
              ELSE UNCHANGED <<recovered, closeVars>>
    /\ UNCHANGED <<setupVars, wireVars, ew, recvVars, outVars, now, storeVars,
                   psVars, expvars, calleeVars, resVars, cliVars, lw, lwLog,
                   calleeLib, um>>

\* handlers that panic on served connections, next to other Close calls
NextPanic ==
    \/ \E c \in Conns, e \in PanicValues, panicnil \in BOOLEAN :
          PanicRecover(c, e, panicnil)
    \/ \E c \in Conns, err \in CloseErrs : CloseCall(c, err)

SpecPanic == InitCall /\ [][NextPanic]_vars

NextCall ==
    \/ \E c \in Conns, uri \in URIs, timeout \in CallTimeouts, storeOK \in BOOLEAN :
          RecvCall(c, uri, timeout, storeOK)
    \/ \E c \in Conns, wr \in WriteResults : SendAck(c, wr)
    \/ Calls
    \/ \E g \in cIn, how \in ScriptOutcomes : CallsTask(g, how)
    \/ \E g \in cIn, lost \in BOOLEAN : CallsSwap(g, lost)
    \/ \E g1 \in cIn, g2 \in cIn : CallsCross(g1, g2)
    \/ CallsClose
    \/ \E g \in cIn : CalleeTake(g)
    \/ \E marshalOK \in BOOLEAN, storeOK \in BOOLEAN : InvokeAndStoreResult(marshalOK, storeOK)
    \/ \E c \in Conns : pollResults(c)
    \/ \E c \in Conns : \E g \in rIn[c], how \in ScriptOutcomes :
          sendResult(c, g, how)
    \/ \E c \in Conns : \E g \in rIn[c] : results(c, g)
    \/ \E c \in Conns, wr \in WriteResults : resultsSend(c, wr)
    \/ \E c \in Conns : pollResultsStop(c)
    \/ \E c \in Conns : pollResultsClose(c)
    \/ \E c \in Conns : resultsEnd(c)
    \/ Tick

SpecCall == InitCall /\ [][NextCall]_vars

\* one connection with its three loops, the callee, and writes that fail in
\* every way
NextConn ==
    \/ \E c \in CloseConns, uri \in URIs, timeout \in CallTimeouts :
          RecvCall(c, uri, timeout, TRUE)
    \/ \E c \in CloseConns, ch \in Channels, args \in PubArgs :
          RecvPub(c, ch, args, TRUE)
    \/ \E c \in CloseConns, ch \in Channels, pat \in BOOLEAN :
          RecvSubUnsb(c, ch, pat, TRUE, TRUE)
    \/ \E c \in CloseConns, wr \in AllWriteResults : SendAck(c, wr)
    \/ Calls
    \/ \E g \in cIn : CallsTask(g, "ok")
    \/ \E g \in cIn : CalleeTake(g)
    \/ InvokeAndStoreResult(TRUE, TRUE)
    \/ \E c \in CloseConns : pollResults(c)
    \/ \E c \in CloseConns : \E g \in rIn[c] : sendResult(c, g, "ok")
    \/ \E c \in CloseConns : \E g \in rIn[c] : results(c, g)
    \/ \E c \in CloseConns, wr \in AllWriteResults : resultsSend(c, wr)
    \/ \E c \in CloseConns : pollResultsStop(c)
    \/ \E c \in CloseConns : resultsEnd(c)
    \/ \E c \in CloseConns : \E m \in evIn[c] : listen(c, m)
    \/ \E c \in CloseConns : listenStop(c)
    \/ \E c \in CloseConns : \E m \in eTasks[c] : pubSub(c, m)
    \/ \E c \in CloseConns, wr \in AllWriteResults : pubSubSend(c, wr)
    \/ \E c \in CloseConns : pubSubEnd(c)
    \/ \E c \in CloseConns : pollResultsFail(c)
    \/ \E c \in CloseConns : listenFail(c)
    \/ \E c \in CloseConns : pollResultsClose(c)
    \/ \E c \in CloseConns : listenClose(c)

SpecConn == InitCall /\ [][NextConn]_vars

\* the results loop and the pub-sub loop are goroutines: each gets to see
\* that its stream is closed
SpecConnFair ==
    /\ SpecConn
    /\ \A c \in CloseConns :
          /\ WF_vars(resultsEnd(c)) /\ WF_vars(pubSubEnd(c))
          /\ WF_vars(\E wr \in AllWriteResults : resultsSend(c, wr))
          /\ WF_vars(\E wr \in AllWriteResults : pubSubSend(c, wr))

\* the receive loop and the default processor on the four request types
NextProc ==
    \/ \E c \in Conns, uri \in URIs, timeout \in CallTimeouts, storeOK \in BOOLEAN :
          RecvCall(c, uri, timeout, storeOK)
    \/ \E c \in Conns, ch \in Channels, args \in PubArgs, opOK \in BOOLEAN :
          RecvPub(c, ch, args, opOK)
    \/ \E c \in Conns, ch \in Channels, pat \in BOOLEAN, sub \in BOOLEAN,
          opOK \in BOOLEAN : RecvSubUnsb(c, ch, pat, sub, opOK)
    \/ \E c \in Conns, wr \in WriteResults : SendAck(c, wr)
    \/ \E c \in Conns : RecvError(c)
    \/ \E c \in Conns, f \in BadFrames \cup {Frame(t) : t \in allReqMsgs} :
          RecvReject(c, f)
    \/ \E c \in Conns, h \in Headers : Upgrade(c, h)
    \/ \E c \in Conns, resOK \in BOOLEAN : ServeConnResults(c, resOK)
    \/ \E c \in Conns, psOK \in BOOLEAN : ServeConnPubSub(c, psOK)
    \/ \E c \in Conns : ServeConnConnected(c)
    \/ \E c \in Conns : ServeConnLoops(c)

SpecProc == Init /\ [][NextProc]_vars

\* the way of a call of one connection to its RES: the callee, the results
\* loop with its tasks, and the writes
NextResult ==
    \/ \E c \in CloseConns, timeout \in CallTimeouts :
          RecvCall(c, ListenURIs[1], timeout, TRUE)
    \/ \E c \in CloseConns, wr \in WriteResults : SendAck(c, wr)
    \/ Calls
    \/ \E g \in cIn : CallsTask(g, "ok")
    \/ \E g \in cIn : CalleeTake(g)
    \/ InvokeAndStoreResult(TRUE, TRUE)
    \/ \E c \in CloseConns : pollResults(c)
    \/ \E c \in CloseConns : \E g \in rIn[c], how \in ScriptOutcomes :
          sendResult(c, g, how)
    \/ \E c \in CloseConns : \E g \in rIn[c] : results(c, g)
    \/ \E c \in CloseConns, wr \in WriteResults : resultsSend(c, wr)
    \/ \E c \in CloseConns : pollResultsStop(c)
    \/ \E c \in CloseConns : pollResultsClose(c)
    \/ \E c \in CloseConns : resultsEnd(c)
    \/ Tick

SpecResult == InitCall /\ [][NextResult]_vars

\* the sendResult tasks and Conn.results run in goroutines of their own: a
\* task runs its script, a payload sent on the Results stream is received,
\* and Conn.Send returns
SpecResultFair ==
    /\ SpecResult
    /\ \A c \in CloseConns :
          /\ WF_vars(\E g \in rIn[c], how \in ScriptOutcomes :
                        sendResult(c, g, how))
          /\ WF_vars(\E g \in rIn[c] : results(c, g))
          /\ WF_vars(\E wr \in WriteResults : resultsSend(c, wr))

(***************************************************************************)
(* The client (package client).  Client.Call writes the CALL, then adds    *)
(* the call to the results map and starts its handleExpiredCall task; the  *)
(* read loop handleMessages dispatches the responses it reads.  The        *)
(* gateway answers a CALL with an ACK or a NACK and, if it accepted the    *)
(* call, at most one RES, which may be written before the ACK.             *)
(***************************************************************************)
\* everything but the client
srvVars == <<connVars, ew, recvVars, outVars, now, storeVars, psVars, expvars,
             calleeVars, resVars, libVars>>

\* the positions of the messages of type t about call id in a sequence
About(out, t, id) == {i \in 1..Len(out) : out[i].t = t /\ out[i].for = id}

\* the gateway has written a response of type t to call id
Written(t, id) == About(cin, t, id) # {} \/ About(cread, t, id) # {}

\* Client.Call up to WriteJSON: the write succeeds (wOK) or Call returns the
\* error; the calls are numbered in the order they are made
ClientCall(id, wOK) ==
    /\ cpc[id] = "none"
    /\ \A j \in 1..(id - 1) : cpc[j] # "none"
    /\ cpc' = [cpc EXCEPT ![id] = IF wOK THEN "written" ELSE "failed"]
    /\ UNCHANGED <<srvVars, pending, expiry, cin, cread, rmsg, spawned, handled, readLoop>>

\* Client.Call after WriteJSON: addPending, then go handleExpiredCall
addPending(id) ==
    /\ cpc[id] = "written"
    /\ cpc' = [cpc EXCEPT ![id] = "added"]
    /\ pending' = pending \cup {id}
    /\ expiry' = [expiry EXCEPT ![id] = [pc |-> "waiting", at |-> 0]]
    /\ UNCHANGED <<srvVars, cin, cread, rmsg, spawned, handled, readLoop>>

\* the gateway writes a response to the CALL on the client's websocket
ServerWrites(id, t) ==
    /\ cpc[id] \in {"written", "added"}
    /\ ~Written(t, id)
    /\ t = "ACK" => ~Written("NACK", id)
    /\ t = "RES" => ~Written("NACK", id)
    /\ t = "NACK" => ~Written("ACK", id) /\ ~Written("RES", id)
    /\ cin' = Append(cin, [t |-> t, for |-> id, forType |-> "CALL"])
    /\ UNCHANGED <<srvVars, cpc, pending, expiry, cread, rmsg, spawned, handled, readLoop>>

deletePendingMut(set, key) == [ok |-> TRUE, set |-> set \ {key}]

deletePendingNever(set, key) == [ok |-> FALSE, set |-> set \ {key}]

\* deletePending: delete the key and report whether it was there
deletePending(set, key) == [ok |-> key \in set, set |-> set \ {key}]

\* handleMessages, the start of a round: NextReader and UnmarshalResponse
\* return the next response
handleMessages ==
    /\ readLoop = "running"
    /\ rmsg = NoResponse
    /\ cin # <<>>
    /\ cin' = Tail(cin)
    /\ cread' = Append(cread, Head(cin))
    /\ rmsg' = [pc |-> "read", m |-> Head(cin)]
    /\ UNCHANGED <<srvVars, cpc, pending, expiry, spawned, handled, readLoop>>

\* handleMessages, the switch on the response and the go statement: a RES
\* is deleted from the results map and dropped if it was no longer pending,
\* a NACK of a CALL deletes the pending call; what is not dropped gets a
\* goroutine that will call the handler
handleMessagesSwitch ==
    /\ rmsg.pc = "read"
    /\ LET m == rmsg.m
           d == deletePending(pending, m.for)
       IN  IF m.t = "RES"
           THEN /\ pending' = d.set
                /\ spawned' = IF d.ok THEN Append(spawned, m) ELSE spawned
           ELSE /\ pending' = IF m.t = "NACK" /\ m.forType = "CALL"
                              THEN d.set ELSE pending
                /\ spawned' = Append(spawned, m)
    /\ rmsg' = NoResponse
    /\ UNCHANGED <<srvVars, cpc, expiry, cin, cread, handled, readLoop>>

\* one of the goroutines made by `go c.handler.Handle(ctx, m)` runs: the
\* handler is called with its message; the goroutines run in any order
Handle(i) ==
    /\ i \in 1..Len(spawned)
    /\ handled' = Append(handled, spawned[i])
    /\ spawned' = [k \in 1..(Len(spawned) - 1) |->
                      IF k < i THEN spawned[k] ELSE spawned[k + 1]]
    /\ UNCHANGED <<srvVars, cpc, pending, expiry, cin, cread, rmsg, readLoop>>

\* NextReader fails: the read loop ends and closes c.stop
handleMessagesStop ==
    /\ readLoop = "running"
    /\ rmsg = NoResponse
    /\ readLoop' = "stopped"
    /\ UNCHANGED <<srvVars, cpc, pending, expiry, cin, cread, rmsg, spawned,
                   handled>>

\* newExp: the expired message of a call (it has no for-type)
newExp(id) == [t |-> "EXP", for |-> id]

\* handleExpiredCall leaves the select by the timer and deletes the call
\* from the results map; if the call was still pending, a goroutine is made
\* that will call the handler with the EXP; at is the number of responses
\* read by then
handleExpiredCall(id) ==
    /\ expiry[id].pc = "waiting"
    /\ LET d == deletePending(pending, id)
       IN  /\ pending' = d.set
           /\ spawned' = IF d.ok THEN Append(spawned, newExp(id)) ELSE spawned
    /\ expiry' = [expiry EXCEPT ![id] = [pc |-> "done", at |-> Len(cread)]]
    /\ UNCHANGED <<srvVars, cpc, cin, cread, rmsg, handled, readLoop>>

\* handleExpiredCall leaves the select by c.stop and returns
handleExpiredCallStop(id) ==
    /\ expiry[id].pc = "waiting"
    /\ readLoop = "stopped"
    /\ expiry' = [expiry EXCEPT ![id] = [pc |-> "stopped", at |-> Len(cread)]]
    /\ UNCHANGED <<srvVars, cpc, pending, cin, cread, rmsg, spawned, handled,
                   readLoop>>

NextClient ==
    \/ \E id \in 1..MaxReqs, wOK \in BOOLEAN : ClientCall(id, wOK)
    \/ \E id \in 1..MaxReqs : addPending(id)
    \/ \E id \in 1..MaxReqs, t \in {"ACK", "NACK", "RES"} : ServerWrites(id, t)
    \/ handleMessages
    \/ handleMessagesSwitch
    \/ \E i \in 1..Len(spawned) : Handle(i)
    \/ handleMessagesStop
    \/ \E id \in 1..MaxReqs : handleExpiredCall(id)
    \/ \E id \in 1..MaxReqs : handleExpiredCallStop(id)

SpecClient == Init /\ [][NextClient]_vars

\* the client with a gateway that acknowledges the first call only
NextExpiry ==
    \/ \E id \in 1..MaxReqs, wOK \in BOOLEAN : ClientCall(id, wOK)
    \/ \E id \in 1..MaxReqs : addPending(id)
    \/ \E id \in 1..MaxReqs, t \in {"ACK", "NACK", "RES"} :
          (t = "ACK" => id = 1) /\ ServerWrites(id, t)
    \/ handleMessages
    \/ handleMessagesSwitch
    \/ \E i \in 1..Len(spawned) : Handle(i)
    \/ handleMessagesStop
    \/ \E id \in 1..MaxReqs : handleExpiredCall(id)
    \/ \E id \in 1..MaxReqs : handleExpiredCallStop(id)

\* each handleExpiredCall task runs in its own goroutine: its timer fires
\* and it goes on to dispatch; so does each goroutine of a handler call
SpecClientFair ==
    /\ Init /\ [][NextExpiry]_vars
    /\ \A id \in 1..MaxReqs :
          /\ WF_vars(handleExpiredCall(id) \/ handleExpiredCallStop(id))
    /\ WF_vars(\E i \in 1..Len(spawned) : Handle(i))

(***************************************************************************)
(* Claims on the Close latch (SpecClose).                                  *)
(***************************************************************************)
\* the first element of a sequence of errors that is not nil, or nil
RECURSIVE FirstNonNil(_)
FirstNonNil(errs) ==
    IF errs = <<>> THEN "nil"
    ELSE IF Head(errs) # "nil" THEN Head(errs)
    ELSE FirstNonNil(Tail(errs))

\* C1: once a Close call has run on a connection, the close-notify channel
\* has been closed exactly once, each broker handle has been closed at most
\* once, and no later Close call changes CloseErr, the handles or kill.
C1_CloseOnce ==
    /\ [](\A c \in Conns :
            /\ kill[c] = (IF closeArgs[c] = <<>> THEN 0 ELSE 1)
            /\ pscCloses[c] <= 1
            /\ rescCloses[c] <= 1)
    /\ [][\A c \in Conns :
            closeArgs[c] # <<>> =>
                /\ CloseErr'[c] = CloseErr[c]
                /\ kill'[c] = kill[c]
                /\ pscCloses'[c] = pscCloses[c]
                /\ rescCloses'[c] = rescCloses[c]]_vars

\* Close(a) then Close(b) ran on a connection with both handles: CloseErr is
\* a, and each handle was closed once
C1_Witness ==
    /\ Len(closeArgs["c1"]) >= 2
    /\ closeArgs["c1"][1] = "a"
    /\ closeArgs["c1"][2] = "b"
    /\ CloseErr["c1"] = "a"
    /\ pscCloses["c1"] = 1
    /\ rescCloses["c1"] = 1

\* C2: after the close-notify has fired, CloseErr is the first non-nil
\* error among the errors of the Close calls made.
C2_FirstNonNilWins ==
    \A c \in Conns : kill[c] > 0 => CloseErr[c] = FirstNonNil(closeArgs[c])

\* what Conn.Close does instead: after the close-notify has fired, CloseErr
\* is the error of the first Close call, also when that error is nil and
\* later ones are not.
C2_FirstCallWins ==
    \A c \in Conns : kill[c] > 0 => CloseErr[c] = closeArgs[c][1]

\* Close(nil) ran first and a Close with a non-nil error ran after it
C2_Witness ==
    /\ Len(closeArgs["c1"]) >= 2
    /\ closeArgs["c1"][1] = "nil"
    /\ closeArgs["c1"][2] = "a"
    /\ kill["c1"] = 1
    /\ CloseErr["c1"] = "nil"

(***************************************************************************)
(* Claims on the exclusive writer (SpecWriter).                            *)
(***************************************************************************)
\* the writer took the lock and has not given it back
Holds(w) == ew[w].init /\ ew[w].pc # "closed"

\* the bytes of each writer form one contiguous block of the stream
Contiguous(out) ==
    \A i, j, k \in 1..Len(out) :
        (i < j /\ j < k /\ out[i] = out[k]) => out[j] = out[i]

\* C3: on one connection at most one exclusive writer holds the write lock,
\* the last byte on the websocket is a byte of the writer whose frame is open,
\* and the frames of the writers never interleave in the byte stream.
C3_ExclusiveFrames ==
    \A c \in Conns :
        /\ Cardinality({w \in Writers : ew[w].conn = c /\ Holds(w)}) <= 1
        /\ \A w \in Writers :
              (ew[w].conn = c /\ Holds(w) /\ ew[w].wrote > 0)
                  => wsOut[c][Len(wsOut[c])] = w
        /\ Contiguous(wsOut[c])

\* two writers each wrote a two-byte frame on the same connection
C3_Witness ==
    /\ wsOut["c1"] = <<"w1", "w1", "w2", "w2">>
    /\ ew["w1"].pc = "closed"
    /\ Holds("w2")

\* C4: a writer that leaves the select of its first Write while the lock is
\* held by another writer left it by the timer: it gets ErrWriteLockTimeout,
\* holds nothing and no byte reaches the websocket; a writer that failed
\* with ErrWriteLockTimeout has written nothing; and the Close of a writer
\* that never acquired the lock changes neither the lock nor the stream.
C4_LockTimeout ==
    /\ [](\A w \in Writers :
            (ew[w].err = "ErrWriteLockTimeout" /\ ~ew[w].init)
                => ew[w].wrote = 0)
    /\ [][\A w \in Writers :
            /\ (/\ ew[w].pc = "waiting"
                 /\ ew'[w].pc # "waiting"
                 /\ wmu[ew[w].conn] = 0)
                    => /\ ew[w].lockTimeout > 0
                       /\ ew[w].waited >= ew[w].lockTimeout
                       /\ ew'[w].err = "ErrWriteLockTimeout"
                       /\ ~ew'[w].init
                       /\ wmu' = wmu
                       /\ wsOut' = wsOut
            /\ (/\ ew[w].pc = "idle"
                 /\ ew'[w].pc = "closed"
                 /\ ~ew[w].init)
                    => (wmu' = wmu /\ wsOut' = wsOut)]_vars

\* w2 timed out on the lock that w1 holds, was closed, and w1 still holds it
C4_Witness ==
    /\ ew["w1"].conn = "c1"
    /\ ew["w2"].conn = "c1"
    /\ Holds("w1")
    /\ ew["w2"].err = "ErrWriteLockTimeout"
    /\ ew["w2"].pc = "closed"
    /\ ~ew["w2"].init
    /\ ew["w2"].wrote = 0
    /\ wmu["c1"] = 0
    /\ wsOut["c1"] = <<"w1">>

(***************************************************************************)
(* Claims on the RPC pipeline (SpecCall, SpecResultFair) and on the        *)
(* default processor (SpecProc).                                           *)
(***************************************************************************)
\* the positions of the messages of the given types that answer request id
Answers(out, types, id) ==
    {i \in 1..Len(out) : out[i].t \in types /\ out[i].for = id}

\* C5: on every connection, a RES written to the websocket comes after the
\* ACK of the same CALL.
C5_AckBeforeRes ==
    \A c \in Conns : \A i \in 1..Len(wire[c]) :
        wire[c][i].t = "RES" =>
            \E j \in 1..(i - 1) :
                wire[c][j].t = "ACK" /\ wire[c][j].for = wire[c][i].for

\* the RES of call 1 is on the websocket of c1 before the ACK of call 1
C5_Witness ==
    /\ Len(wire["c1"]) = 2
    /\ wire["c1"][1].t = "RES" /\ wire["c1"][1].for = 1
    /\ wire["c1"][2].t = "ACK" /\ wire["c1"][2].for = 1

\* C6: every request handled by the default processor has, once ProcessMsg
\* has returned, exactly one acknowledgement handed to Conn.Send, on its own
\* connection: an ACK if the broker operation succeeded, else a NACK with
\* code 500 and the broker error; no acknowledgement exists before that.
C6_OneAck ==
    \A id \in 1..Len(reqs) :
        LET c == reqs[id].conn
            acks == Answers(sent[c], {"ACK", "NACK"}, id)
        IN  /\ \A d \in Conns \ {c} : Answers(sent[d], {"ACK", "NACK"}, id) = {}
            /\ IF proc[c] # NoMsg /\ proc[c].id = id
               THEN acks = {}
               ELSE /\ Cardinality(acks) = 1
                    /\ \A i \in acks :
                          /\ sent[c][i].forType = reqs[id].t
                          /\ IF reqs[id].err = "nil"
                             THEN sent[c][i].t = "ACK"
                             ELSE /\ sent[c][i].t = "NACK"
                                  /\ sent[c][i].code = 500
                                  /\ sent[c][i].msg = reqs[id].err

\* c1 sent a SUB that succeeded and a PUB that failed: one ACK, one NACK(500)
C6_Witness ==
    /\ Len(reqs) = 2
    /\ reqs[1] = [t |-> "SUB", conn |-> "c1", err |-> "nil"]
    /\ reqs[2] = [t |-> "PUB", conn |-> "c1", err |-> "store error"]
    /\ Len(sent["c1"]) = 2
    /\ sent["c1"][1].t = "ACK" /\ sent["c1"][1].for = 1
    /\ sent["c1"][2].t = "NACK" /\ sent["c1"][2].for = 2
    /\ sent["c1"][2].code = 500

\* C7: every result payload delivered to a connection's results loop names a
\* CALL read from that connection, and every RES handed to Conn.Send on a
\* connection is for a CALL read from that connection.
C7_ResOnOwnConn ==
    \A c \in Conns :
        /\ \A i \in 1..Len(resOut[c]) :
              /\ resOut[c][i].conn = c
              /\ resOut[c][i].id \in 1..Len(reqs)
              /\ reqs[resOut[c][i].id].conn = c
        /\ \A i \in 1..Len(sent[c]) :
              sent[c][i].t = "RES" =>
                  /\ sent[c][i].for \in 1..Len(reqs)
                  /\ reqs[sent[c][i].for].t = "CALL"
                  /\ reqs[sent[c][i].for].conn = c

\* c2 made call 1 and c1 made call 2; each got the RES of its own call
C7_Witness ==
    /\ Len(reqs) = 2
    /\ reqs[1].conn = "c2"
    /\ reqs[2].conn = "c1"
    /\ Answers(sent["c2"], {"RES"}, 1) # {}
    /\ Answers(sent["c1"], {"RES"}, 2) # {}

\* C8 as stated: the sendResult task of a result that the gateway popped
\* while the result's timeout key had a positive PTTL hands the result on
\* to the Results stream.
C8_PoppedUnexpiredDelivered ==
    [][\A c \in Conns : \A g \in rIn[c] \ rIn'[c] :
          (g.pc = "popped" /\ g.was > 0)
              => \E h \in rIn'[c] : h.pc = "ready" /\ h.p = g.p]_vars

\* C8 as amended: a result whose sendResult task read a positive PTTL from
\* the result's timeout key leads to a RES for that call handed to
\* Conn.Send on the connection, and a connection is never sent two RES for
\* the same call.
C8_EventuallyOneRes ==
    /\ \A c \in Conns, id \in 1..MaxReqs :
          (\E g \in rIn[c] : g.pc = "ready" /\ g.p.id = id)
              ~> (Answers(sent[c], {"RES"}, id) # {})
    /\ [](\A c \in Conns, id \in 1..MaxReqs :
            Cardinality(Answers(sent[c], {"RES"}, id)) <= 1)

\* call 1 of c1 was acknowledged, ran in the callee, and its RES was sent
C8_Witness ==
    /\ Len(reqs) >= 1
    /\ reqs[1] = [t |-> "CALL", conn |-> "c1", err |-> "nil"]
    /\ Answers(sent["c1"], {"ACK"}, 1) # {}
    /\ Len(invoked) >= 1 /\ invoked[1].id = 1 /\ invoked[1].stored
    /\ Len(resOut["c1"]) = 1 /\ resOut["c1"][1].id = 1
    /\ Cardinality(Answers(sent["c1"], {"RES"}, 1)) = 1

\* the tasks of a stream that are about to send their payload
ReadyIn(tasks) == {g \in tasks : g.pc = "ready"}

\* C9: every payload delivered on the Calls or the Results stream had a
\* positive PTTL when its timeout key was read, a delivered call payload
\* carries that PTTL, the one of its own key, as its TTLAfterRead, and the
\* task of a payload whose timeout key had a PTTL <= 0 when it was popped,
\* or has one when the task reads it, sends nothing on the stream.
C9_ExpiredDropped ==
    /\ [](/\ \A g \in ReadyIn(cIn) : g.pttl > 0 /\ g.pttl = g.was
          /\ \A i \in 1..Len(callsOut) :
                /\ callsOut[i].pttl > 0
                /\ callsOut[i].TTLAfterRead = callsOut[i].pttl * TicksPerMs
          /\ \A c \in Conns :
                /\ \A g \in ReadyIn(rIn[c]) : g.pttl > 0 /\ g.pttl = g.was
                /\ \A i \in 1..Len(resOut[c]) : resOut[c][i].pttl > 0)
    /\ [][/\ \A g \in cIn \ cIn' :
                (/\ g.pc = "popped"
                 /\ g.was <= 0 \/ PTTL("call", g.p.uri, g.p.id) <= 0)
                    => (ReadyIn(cIn') = ReadyIn(cIn) /\ callsOut' = callsOut)
          /\ \A c \in Conns : \A g \in rIn[c] \ rIn'[c] :
                (/\ g.pc = "popped"
                 /\ g.was <= 0 \/ PTTL("res", g.p.conn, g.p.id) <= 0)
                    => (ReadyIn(rIn'[c]) = ReadyIn(rIn[c]) /\ resOut' = resOut)]_vars

\* the tasks of two calls read each other's script reply: the call whose
\* key had expired is about to be sent on the Calls stream with the PTTL
\* of the other, and the other call, whose key was alive, was counted as
\* expired and dropped
C9_Witness ==
    /\ expvars.ExpiredCalls = 1
    /\ callsOut = <<>>
    /\ callList = [u \in URIs |-> <<>>]
    /\ \E g \in cIn : cIn = {g} /\ g.pc = "ready" /\ g.was <= 0 /\ g.pttl > 0

\* C10 as stated: InvokeAndStoreResult calls Broker.Result exactly when the
\* remaining time is positive.
C10_StoresIffRemain ==
    \A i \in 1..Len(invoked) : invoked[i].result <=> invoked[i].remain > 0

\* C10 as amended: InvokeAndStoreResult calls Broker.Result, with the
\* remaining time as the timeout, exactly when the remaining time is positive
\* and the value marshals; when the remaining time is not positive it returns
\* ErrCallExpired; and a call for which Broker.Result was not called has no
\* result in the store.
C10_StoresIffRemainAndMarshals ==
    \A i \in 1..Len(invoked) :
        LET r == invoked[i]
        IN  /\ r.result <=> (r.remain > 0 /\ r.marshal)
            /\ r.result => r.to = registerTimeout(r.remain)
            /\ r.remain <= 0 => r.ret = "ErrCallExpired"
            /\ (r.remain > 0 /\ ~r.marshal) => r.ret = "marshal error"
            /\ ~r.result =>
                  /\ ~r.stored
                  /\ \A k \in tkeys : ~(k.kind = "res" /\ k.id = r.id)
                  /\ \A c \in Conns : \A j \in 1..Len(resList[c]) :
                        resList[c][j].id # r.id

\* one thunk returned with no time left and got ErrCallExpired, another had
\* time left but its value did not marshal: neither result was stored
C10_Witness ==
    /\ Len(invoked) = 2
    /\ invoked[1].remain = 0 /\ invoked[1].ret = "ErrCallExpired"
    /\ invoked[2].remain > 0 /\ ~invoked[2].marshal
    /\ ~invoked[2].result

(***************************************************************************)
(* Claims on the client (SpecClient, SpecClientFair).                      *)
(***************************************************************************)
\* the messages that have been given a handler goroutine: those the handler
\* has been called with, then those whose goroutine has yet to run
Dispatched == handled \o spawned

\* C11: for every call the handler gets at most one RES and at most one EXP
\* and never both; the read loop starts no handler for a RES it looks up
\* after the call's EXP got its handler goroutine, and the expiry task
\* starts no handler for an EXP once the call's RES got its goroutine.
C11_ResOrExp ==
    /\ [](\A id \in 1..MaxReqs :
            /\ Cardinality(About(Dispatched, "RES", id)) <= 1
            /\ Cardinality(About(Dispatched, "EXP", id)) <= 1
            /\ About(Dispatched, "RES", id) = {}
                  \/ About(Dispatched, "EXP", id) = {})
    /\ [][\A id \in 1..MaxReqs :
            /\ (/\ About(Dispatched, "EXP", id) # {}
                /\ rmsg.pc = "read" /\ rmsg.m.t = "RES" /\ rmsg.m.for = id
                /\ rmsg' # rmsg)
                  => spawned' = spawned
            /\ (/\ About(Dispatched, "RES", id) # {}
                /\ expiry[id].pc = "waiting"
                /\ expiry'[id].pc # "waiting")
                  => spawned' = spawned]_vars

\* call 1 expired and its RES, read later, was dropped; call 2 got its RES
\* and its expiry task found nothing pending
C11_Witness ==
    /\ About(handled, "EXP", 1) # {}
    /\ About(cread, "RES", 1) # {}
    /\ About(handled, "RES", 1) = {}
    /\ About(handled, "RES", 2) # {}
    /\ expiry[2].pc = "done"
    /\ About(handled, "EXP", 2) = {}

\* no RES for the call was among the first n responses the read loop read
NoneRead(types, id, n) ==
    \A i \in 1..n : ~(cread[i].t \in types /\ cread[i].for = id)

\* C12 as stated: a call whose timeout elapsed with no RES read for it by
\* then has exactly one EXP dispatched.
C12_ExpIfNoRes ==
    \A id \in 1..MaxReqs :
        (expiry[id].pc = "done" /\ NoneRead({"RES"}, id, expiry[id].at))
            => Cardinality(About(Dispatched, "EXP", id)) = 1

\* C12 as amended: a call whose timeout elapsed while the read loop had read
\* neither a RES nor a NACK for it has exactly one EXP dispatched; no call
\* ever has two; an EXP is only for a call that was sent; the expiry task
\* of a sent call ends, by its timer or by the stop of the read loop; and
\* the handler is called with every EXP that was dispatched.
C12_ExpIfNoResNorNack ==
    /\ [](\A id \in 1..MaxReqs :
            /\ Cardinality(About(Dispatched, "EXP", id)) <= 1
            /\ About(Dispatched, "EXP", id) # {} => cpc[id] = "added"
            /\ (/\ expiry[id].pc = "done"
                /\ NoneRead({"RES", "NACK"}, id, expiry[id].at))
                  => Cardinality(About(Dispatched, "EXP", id)) = 1)
    /\ \A id \in 1..MaxReqs :
          /\ (expiry[id].pc = "waiting")
                ~> (expiry[id].pc \in {"done", "stopped"})
          /\ (About(spawned, "EXP", id) # {})
                ~> (About(handled, "EXP", id) # {})

\* call 1 was sent and acknowledged, no RES came, and its EXP was dispatched
C12_Witness ==
    /\ cpc[1] = "added"
    /\ About(handled, "ACK", 1) # {}
    /\ ~Written("RES", 1)
    /\ expiry[1].pc = "done"
    /\ handled[Len(handled)] = newExp(1)

\* the read loop has read a NACK for the call and is past its switch
NackSeen(id) ==
    \E i \in About(cread, "NACK", id) : ~(rmsg.pc = "read" /\ i = Len(cread))

\* C13: once the read loop has handled the NACK of a call, the expiry task
\* of the call, whenever its timer fires, dispatches no EXP.
C13_NoExpAfterNack ==
    [][\A id \in 1..MaxReqs :
          (NackSeen(id) /\ expiry'[id].pc = "done" /\ expiry[id].pc # "done")
              => spawned' = spawned]_vars

\* the NACK of call 1 was read and dispatched before Client.Call added the
\* call to the results map, and the expiry task then dispatched an EXP
C13_Witness ==
    /\ cread = <<[t |-> "NACK", for |-> 1, forType |-> "CALL"]>>
    /\ cpc[1] = "added"
    /\ expiry[1] = [pc |-> "done", at |-> 1]
    /\ handled = <<cread[1], newExp(1)>>

(***************************************************************************)
(* Claims on the receive loop and on Upgrade (SpecProc).                   *)
(***************************************************************************)
\* C14: every request handed to the handler has a type the connection
\* allows, and a step in which the receive loop closes the connection for a
\* protocol error (a non-text frame, or a frame that does not decode as an
\* allowed request) ends the receive loop, hands nothing to the handler and,
\* if the connection was not closed yet, makes the error its CloseErr.
C14_ProtocolErrorCloses ==
    /\ [](\A id \in 1..Len(reqs) : reqs[id].t \in Effective(reqs[id].conn))
    /\ [][\A c \in Conns :
            (/\ Len(closeArgs'[c]) > Len(closeArgs[c])
             /\ closeArgs'[c][Len(closeArgs'[c])] \in
                    {"invalid websocket message type", "unmarshal error"})
                => /\ "receive" \in loops[c]
                   /\ "receive" \notin loops'[c]
                   /\ reqs' = reqs /\ proc' = proc /\ sent' = sent
                   /\ ~closeOnce[c] =>
                         CloseErr'[c] = closeArgs'[c][Len(closeArgs'[c])]]_vars

\* c1 allows CALL and PUB: its CALL was acknowledged, then its SUB closed the
\* connection with the decode error and ended the receive loop
C14_Witness ==
    /\ allowedMsgs["c1"] = {"CALL", "PUB"}
    /\ Len(reqs) = 1 /\ reqs[1].t = "CALL" /\ reqs[1].conn = "c1"
    /\ Answers(sent["c1"], {"ACK"}, 1) # {}
    /\ closeArgs["c1"] = <<"unmarshal error">>
    /\ CloseErr["c1"] = "unmarshal error"
    /\ "receive" \notin loops["c1"]

\* the name of a request type in the header
TypeName(t) ==
    IF t = "CALL" THEN <<"c", "a", "l", "l">>
    ELSE IF t = "SUB" THEN <<"s", "u", "b">>
    ELSE IF t = "UNSB" THEN <<"u", "n", "s", "b">>
    ELSE <<"p", "u", "b">>

\* the request types a header value names
Named(h) ==
    {t \in allReqMsgs :
        \E i \in 1..Len(Split(h)) : TrimSpace(ToLower(Split(h)[i])) = TypeName(t)}

\* C15: on a connection upgraded with a header value that is neither empty
\* nor "*", every request handed to the handler has a type the header names.
C15_OnlyNamedAllowed ==
    \A c \in Conns :
        header[c] \notin {NoHeader, <<>>, <<"*">>} =>
            \A id \in 1..Len(reqs) :
                reqs[id].conn = c => reqs[id].t \in Named(header[c])

\* c1 was upgraded with the header "bogus", which names no type, and its
\* CALL was accepted and acknowledged
C15_Witness ==
    /\ header["c1"] = <<"b", "o", "g", "u", "s">>
    /\ Named(header["c1"]) = {}
    /\ Len(reqs) >= 1 /\ reqs[1].t = "CALL" /\ reqs[1].conn = "c1"
    /\ Answers(sent["c1"], {"ACK"}, 1) # {}

(***************************************************************************)
(* Claims on ServeConn (SpecClose, SpecCloseFair).                         *)
(***************************************************************************)
\* C16: a handle exists only if its message types are allowed, and on a
\* connection whose setup succeeded the results handle exists if and only if
\* CALL is allowed and the pub-sub handle if and only if SUB or UNSB is.
C16_HandlesIffAllowed ==
    \A c \in Conns :
        /\ ~served[c] => (resc[c] = "nil" /\ psc[c] = "nil")
        /\ resc[c] = "set" => "CALL" \in Effective(c)
        /\ psc[c] = "set" => Effective(c) \cap {"SUB", "UNSB"} # {}
        /\ (served[c] /\ Len(connState[c]) >= 2 /\ connState[c][2] = "Connected")
              => /\ resc[c] = "set" <=> "CALL" \in Effective(c)
                 /\ psc[c] = "set" <=> Effective(c) \cap {"SUB", "UNSB"} # {}

\* c1 is connected with only UNSB allowed: a pub-sub handle, no results
\* handle
C16_Witness ==
    /\ served["c1"]
    /\ allowedMsgs["c1"] = {"UNSB"}
    /\ connState["c1"] = <<"Accepting", "Connected">>
    /\ psc["c1"] = "set"
    /\ resc["c1"] = "nil"

\* the setup of the connection failed: ServeConn called Close with the
\* error of the handle it could not create
SetupFailed(c) == \E i \in 1..Len(closeArgs[c]) : closeArgs[c][i] = "setup"

\* C17: the notifications of a served connection are Accepting, then
\* Connected once the handles are set up and never if the setup failed, then
\* Closing once and last when ServeConn returns; a served connection that
\* is closed is eventually notified Closing.
C17_ConnStates ==
    /\ [](\A c \in Conns :
            /\ served[c] <=> connState[c] # <<>>
            /\ connState[c] \in {<<>>, <<"Accepting">>,
                                 <<"Accepting", "Closing">>,
                                 <<"Accepting", "Connected">>,
                                 <<"Accepting", "Connected", "Closing">>}
            /\ SetupFailed(c) =>
                  connState[c] \in {<<"Accepting">>, <<"Accepting", "Closing">>}
            /\ servePc[c] = "serving" =>
                  connState[c] = <<"Accepting", "Connected">>
            /\ servePc[c] = "returned" =>
                  connState[c] = (IF SetupFailed(c)
                                  THEN <<"Accepting", "Closing">>
                                  ELSE <<"Accepting", "Connected", "Closing">>))
    /\ \A c \in CloseConns :
          (served[c] /\ kill[c] > 0)
              ~> (connState[c] # <<>> /\
                  connState[c][Len(connState[c])] = "Closing")

\* the setup of c1 failed: it was notified Accepting and Closing only
C17_Witness ==
    /\ SetupFailed("c1")
    /\ connState["c1"] = <<"Accepting", "Closing">>

(***************************************************************************)
(* Claims on the broker's lists (SpecCall).                                *)
(***************************************************************************)
\* C18: with a positive capacity no call list and no result list is ever
\* longer than the capacity; a Broker.Call or Broker.Result that reaches the
\* store fails with "list capacity exceeded" exactly when the capacity is
\* positive and its list is full, and it then leaves the list as it was;
\* with capacity 0 none fails for capacity.
C18_Capacity ==
    /\ [](/\ cfg.CallCap > 0 =>
                \A u \in URIs : Len(callList[u]) <= cfg.CallCap
          /\ cfg.ResultCap > 0 =>
                \A c \in Conns : Len(resList[c]) <= cfg.ResultCap)
    /\ [][(Len(reqs') > Len(reqs) /\ reqs'[Len(reqs')].t = "CALL"
              /\ reqs'[Len(reqs')].err # "store error") =>
            \E u \in URIs :
               /\ \A v \in URIs \ {u} : callList'[v] = callList[v]
               /\ IF cfg.CallCap > 0 /\ Len(callList[u]) >= cfg.CallCap
                  THEN /\ reqs'[Len(reqs')].err = "list capacity exceeded"
                       /\ callList'[u] = callList[u]
                  ELSE /\ reqs'[Len(reqs')].err = "nil"
                       /\ Len(callList'[u]) = Len(callList[u]) + 1
                       /\ SubSeq(callList'[u], 2, Len(callList'[u]))
                             = callList[u]]_vars
    /\ [][(Len(invoked') > Len(invoked) /\ invoked'[Len(invoked')].result
              /\ invoked'[Len(invoked')].ret # "store error") =>
            LET c == worker.cp.conn
            IN  IF cfg.ResultCap > 0 /\ Len(resList[c]) >= cfg.ResultCap
                THEN /\ invoked'[Len(invoked')].ret = "list capacity exceeded"
                     /\ resList' = resList
                ELSE /\ invoked'[Len(invoked')].ret = "nil"
                     /\ Len(resList'[c]) = Len(resList[c]) + 1]_vars

\* with a call capacity of 1 the second CALL on a URI failed for capacity
\* and the list still holds only the first
C18_Witness ==
    /\ cfg.CallCap = 1
    /\ Len(reqs) = 2
    /\ reqs[1].err = "nil"
    /\ reqs[2].err = "list capacity exceeded"
    /\ \E u \in URIs : Len(callList[u]) = 1 /\ callList[u][1].id = 1

\* C19: the payloads delivered on the Calls stream are for listened URIs
\* only, and those of one URI are delivered in the order they were enqueued
\* (message ids are given in the order of the Broker.Call operations).
C19_FifoDelivery ==
    /\ \A i \in 1..Len(callsOut) :
          \E k \in 1..Len(ListenURIs) : callsOut[i].uri = ListenURIs[k]
    /\ \A i, j \in 1..Len(callsOut) :
          (i < j /\ callsOut[i].uri = callsOut[j].uri)
              => callsOut[i].id < callsOut[j].id

\* both calls were enqueued on u1 and popped in order, and the task of the
\* second sent its payload on the stream before the task of the first
C19_Witness ==
    /\ Len(reqs) = 2
    /\ reqs[1].err = "nil" /\ reqs[2].err = "nil"
    /\ Len(callsOut) = 2
    /\ callsOut[1].id = 2 /\ callsOut[1].uri = "u1"
    /\ callsOut[2].id = 1 /\ callsOut[2].uri = "u1"

(***************************************************************************)
(* Claims on the pub-sub handle (SpecPubSub).                              *)
(***************************************************************************)
\* the subscriptions of handle d after the first n commands of the store
SubscribedAt(d, n) ==
    {sb \in [channel : SubChannels, pattern : BOOLEAN] :
        \E i \in 1..n :
            /\ psLog[i].op = "SUBSCRIBE" /\ psLog[i].conn = d
            /\ psLog[i].channel = sb.channel /\ psLog[i].pattern = sb.pattern
            /\ \A j \in (i + 1)..n :
                  ~(/\ psLog[j].op = "UNSUBSCRIBE" /\ psLog[j].conn = d
                    /\ psLog[j].channel = sb.channel
                    /\ psLog[j].pattern = sb.pattern)}

\* the events handle d is owed: one for each PUBLISH and each subscription of
\* d at that time that is to the channel or to a pattern matching it
Owed(d) ==
    {[id |-> psLog[i].id, channel |-> psLog[i].channel,
      pattern |-> IF sb.pattern THEN sb.channel ELSE "",
      args |-> psLog[i].args] :
        <<i, sb>> \in
          {x \in (1..Len(psLog)) \X [channel : SubChannels, pattern : BOOLEAN] :
              /\ psLog[x[1]].op = "PUBLISH"
              /\ x[2] \in SubscribedAt(d, x[1] - 1)
              /\ \/ x[2].channel = psLog[x[1]].channel
                 \/ x[2].pattern /\ x[2].channel = "*"}}

\* the events handed to the reader of the Events stream of d, and those
\* still between the store and the stream
Handed(d) == {evOut[d][i] : i \in 1..Len(evOut[d])}
InFlight(d) ==
    {[id |-> m.data.id, channel |-> m.channel, pattern |-> m.pattern,
      args |-> m.data.args] :
        m \in {x \in evIn[d] \cup eTasks[d] : Unmarshals(x.data)}}

\* C20: a pub-sub handle is handed only events it is owed, each at most
\* once: one per accepted PUB and per subscription it had at that time to
\* the channel (with an empty pattern) or to a matching pattern (with that
\* pattern), with the channel and the args of the PUB; a handle without a
\* matching subscription at the time of the PUB is handed none; and every
\* event owed to an open handle was handed to it or is on its way.
C20_EventsToSubscribers ==
    \A d \in Conns :
        /\ Handed(d) \subseteq Owed(d)
        /\ Cardinality(Handed(d)) = Len(evOut[d])
        /\ Handed(d) \cap InFlight(d) = {}
        /\ pscCloses[d] = 0 => Handed(d) \cup InFlight(d) = Owed(d)

\* c1 subscribed to the pattern *, c2 subscribed to ch1 and unsubscribed,
\* then args y were published on ch1: c1 was handed the event and c2 none
C20_Witness ==
    /\ Len(psLog) = 4
    /\ psLog[1].op = "SUBSCRIBE" /\ psLog[1].conn = "c1"
    /\ psLog[1].pattern /\ psLog[1].channel = "*"
    /\ psLog[2].op = "SUBSCRIBE" /\ psLog[2].conn = "c2"
    /\ ~psLog[2].pattern /\ psLog[2].channel = "ch1"
    /\ psLog[3].op = "UNSUBSCRIBE" /\ psLog[3].conn = "c2"
    /\ ~psLog[3].pattern /\ psLog[3].channel = "ch1"
    /\ psLog[4].op = "PUBLISH" /\ psLog[4].channel = "ch1"
    /\ evOut["c1"] = <<[id |-> 4, channel |-> "ch1", pattern |-> "*",
                        args |-> "y"]>>
    /\ evOut["c2"] = <<>>
    /\ evIn["c2"] = {} /\ eTasks["c2"] = {}

(***************************************************************************)
(* Claims on the writes of the default processor (SpecConn).               *)
(***************************************************************************)
\* the number of writes of the connections that returned err
CountWrites(err) ==
    LET n(c) == Cardinality({i \in 1..Len(wres[c]) : wres[c][i] = err})
    IN  n("c1") + n("c2")

\* a write of a response on c returned err in this step
WriteFails(c, err) ==
    /\ Len(wres'[c]) = Len(wres[c]) + 1
    /\ wres'[c][Len(wres'[c])] = err

\* C21: a response whose write exceeded the write limit is counted in
\* WriteLimitExceeded and followed by the attempt to write a NACK with code
\* 599 for it, and the connection is never closed with the write-limit
\* error.
C21_LimitExceededNack ==
    \A c \in Conns :
        /\ \A i \in 1..Len(wres[c]) :
              (wres[c][i] = "write limit exceeded" /\ sent[c][i].code # 599) =>
                 /\ wvars.WriteLimitExceeded >= 1
                 /\ i < Len(sent[c])
                 /\ sent[c][i + 1].t = "NACK"
                 /\ sent[c][i + 1].code = 599
        /\ \A k \in 1..Len(closeArgs[c]) :
              closeArgs[c][k] # "write limit exceeded"

\* the write of the ACK of c1's first request exceeded the write limit: no
\* NACK followed and the connection is closed with that error
C21_Witness ==
    /\ wres["c1"] = <<"write limit exceeded">>
    /\ sent["c1"][1].t = "ACK"
    /\ Len(sent["c1"]) = 1
    /\ wvars.WriteLimitExceeded = 1
    /\ kill["c1"] > 0
    /\ CloseErr["c1"] = "write limit exceeded"

\* C23: a write of a response that fails with the write-lock timeout adds
\* one to WriteLockTimeouts (which counts exactly these failures) and closes
\* the connection with that error, which becomes CloseErr unless the
\* connection was closed before.
C23_LockTimeoutCloses ==
    /\ [](wvars.WriteLockTimeouts = CountWrites("write lock timeout"))
    /\ [][\A c \in Conns :
            WriteFails(c, "write lock timeout") =>
               /\ wvars'.WriteLockTimeouts = wvars.WriteLockTimeouts + 1
               /\ closeArgs'[c] = Append(closeArgs[c], "write lock timeout")
               /\ kill'[c] > 0
               /\ CloseErr'[c] = IF kill[c] = 0 THEN "write lock timeout"
                                 ELSE CloseErr[c]]_vars

\* the write of a RES timed out on the write lock and closed c1
C23_Witness ==
    /\ Len(wres["c1"]) = 2
    /\ wres["c1"][2] = "write lock timeout"
    /\ sent["c1"][2].t = "RES"
    /\ wvars.WriteLockTimeouts = 1
    /\ CloseErr["c1"] = "write lock timeout"

\* C24: a write of a response that fails with another error than the
\* write-lock timeout and the exceeded write limit closes the connection
\* with that error, which becomes CloseErr unless the connection was closed
\* before.
C24_OtherErrorCloses ==
    [][\A c \in Conns :
          WriteFails(c, "write error") =>
             /\ closeArgs'[c] = Append(closeArgs[c], "write error")
             /\ kill'[c] > 0
             /\ CloseErr'[c] = IF kill[c] = 0 THEN "write error"
                               ELSE CloseErr[c]]_vars

\* the write of an EVNT failed because the peer is gone and closed c1
C24_Witness ==
    /\ Len(wres["c1"]) >= 2
    /\ wres["c1"][Len(wres["c1"])] = "write error"
    /\ sent["c1"][Len(sent["c1"])].t = "EVNT"
    /\ \A i \in 1..(Len(wres["c1"]) - 1) : wres["c1"][i] = "ok"
    /\ CloseErr["c1"] = "write error"

(***************************************************************************)
(* Claims on the limited writer (SpecLimit).                               *)
(***************************************************************************)
\* the bytes asked for, and the bytes accepted, by the first k Write calls
RECURSIVE Requested(_)
Requested(k) == IF k = 0 THEN 0 ELSE Requested(k - 1) + lwLog[k].size
RECURSIVE Accepted(_)
Accepted(k) == IF k = 0 THEN 0 ELSE Accepted(k - 1) + lwLog[k].cnt

\* the writer under the limited writer never failed
UnderOK == \A i \in 1..Len(lwLog) : lwLog[i].err # "write error"

\* C22 as stated: a Write fails with the exceeded limit exactly when the
\* bytes accepted so far plus its own would exceed the limit, it then accepts
\* nothing, and the bytes accepted never exceed the limit.
C22_LimitOnAccepted ==
    lw.made =>
        /\ Accepted(Len(lwLog)) <= lw.limit
        /\ UnderOK =>
              \A i \in 1..Len(lwLog) :
                  /\ lwLog[i].err = "write limit exceeded"
                        <=> Accepted(i - 1) + lwLog[i].size > lw.limit
                  /\ lwLog[i].err = "write limit exceeded" => lwLog[i].cnt = 0

\* C22: a Write fails with the exceeded limit exactly when the bytes asked
\* for by all the Write calls so far, the failed ones and itself included,
\* exceed the limit; it then accepts nothing, and the bytes accepted never
\* exceed the limit.
C22_LimitOnRequested ==
    lw.made =>
        /\ Accepted(Len(lwLog)) <= lw.limit
        /\ lw.n = lw.limit - Requested(Len(lwLog))
        /\ \A i \in 1..Len(lwLog) :
              /\ lwLog[i].err = "write limit exceeded"
                    <=> Requested(i) > lw.limit
              /\ lwLog[i].err = "write limit exceeded" => lwLog[i].cnt = 0
              /\ lwLog[i].cnt <= lwLog[i].size

\* with limit 3: 2 bytes are accepted, 2 more are refused, and then 1 byte,
\* which would fit, is refused as well
C22_Witness ==
    /\ lw.made /\ lw.limit = 3
    /\ lwLog = <<[size |-> 2, cnt |-> 2, err |-> "nil"],
                 [size |-> 2, cnt |-> 0, err |-> "write limit exceeded"],
                 [size |-> 1, cnt |-> 0, err |-> "write limit exceeded"]>>

\* the loop of c that reads stream has ended in this step
LoopEnds(c, loop) == loop \in loops[c] /\ loop \notin loops'[c]

\* C25: the results loop and the pub-sub loop of a connection end only when
\* their stream is closed, and they do end then; the loop closes the
\* connection with the terminal error of the stream, which becomes CloseErr
\* unless the connection was closed before.
C25_StreamEndCloses ==
    /\ [][\A c \in Conns :
            LoopEnds(c, "results") =>
               /\ resPoll[c] = "closed"
               /\ closeArgs'[c] = Append(closeArgs[c], resErr[c])
               /\ kill'[c] > 0
               /\ CloseErr'[c] = IF kill[c] = 0 THEN resErr[c]
                                 ELSE CloseErr[c]]_vars
    /\ [][\A c \in Conns :
            LoopEnds(c, "pubSub") =>
               /\ evPoll[c] = "closed"
               /\ closeArgs'[c] = Append(closeArgs[c], evErr[c])
               /\ kill'[c] > 0
               /\ CloseErr'[c] = IF kill[c] = 0 THEN evErr[c]
                                 ELSE CloseErr[c]]_vars
    /\ \A c \in CloseConns :
          /\ (resPoll[c] = "closed") ~> ("results" \notin loops[c])
          /\ (evPoll[c] = "closed") ~> ("pubSub" \notin loops[c])

\* the store failed under the results handle of c1, which was open: the
\* results loop ended and its error is the CloseErr of the connection
C25_Witness ==
    /\ resPoll["c1"] = "closed"
    /\ resErr["c1"] = "store error"
    /\ "results" \notin loops["c1"]
    /\ closeArgs["c1"][1] = "store error"
    /\ CloseErr["c1"] = "store error"

(***************************************************************************)
(* C26.  The err slot of a dequeue loop and the close of its stream.       *)
(***************************************************************************)
\* the loop of a stream is past its terminal error
Ended(poll) == poll \in {"stopping", "closed"}

\* C26, as stated: whenever the Calls, Results or Events stream is closed
\* its CallsErr / ResultsErr / EventsErr returns a non-nil error, and while
\* the stream is open the error slot is nil.
C26_ErrSlotNilWhileOpen ==
    /\ (callPoll = "closed") = (CallsErr # "nil")
    /\ \A c \in Conns : (resPoll[c] = "closed") = (ResultsErr(c) # "nil")
    /\ \A c \in Conns : (evPoll[c] = "closed") = (EventsErr(c) # "nil")

\* C26, amended: whenever the Calls, Results or Events stream is closed its
\* CallsErr / ResultsErr / EventsErr returns a non-nil error, and the error
\* slot is nil exactly as long as the loop has met no terminal error: it is
\* already set while the loop waits, with its stream still open, for the
\* deliveries in flight.
C26_ErrSetBeforeClose ==
    /\ Ended(callPoll) = (CallsErr # "nil")
    /\ \A c \in Conns : Ended(resPoll[c]) = (ResultsErr(c) # "nil")
    /\ \A c \in Conns : Ended(evPoll[c]) = (EventsErr(c) # "nil")

\* the three streams of a connection and its callee are closed, each with
\* its error, after each has delivered a payload
C26_Witness ==
    \E c \in CloseConns :
        /\ callPoll = "closed" /\ CallsErr = "store error" /\ callsOut # <<>>
        /\ resPoll[c] = "closed" /\ ResultsErr(c) # "nil" /\ resOut[c] # <<>>
        /\ evPoll[c] = "closed" /\ EventsErr(c) # "nil"

(***************************************************************************)
(* C27.  What stops a dequeue loop and what only drops a payload.          *)
(***************************************************************************)
\* the number of payloads the Calls or Results loops dropped and counted
Dropped == expvars.ExpiredCalls + expvars.ExpiredResults
           + expvars.FailedPTTLCalls + expvars.FailedPTTLResults
           + expvars.FailedResPayloadUnmarshals

\* the tasks of a stream that end in the step without a payload to send:
\* their payload is dropped
Drops(tasks, tasks2) ==
    {g \in tasks \ tasks2 :
        g.pc = "popped" /\ ~\E r \in tasks2 \ tasks : r.p = g.p}

\* C27: the Calls and the Results loop leave their polling state only by
\* recording a terminal error of the blocking pop, in a step that drops no
\* payload and takes none from the list.  A step that pops a payload takes
\* one payload from the list, starts its task and leaves the loop polling
\* and the other tasks untouched.  A task that drops its payload (it does
\* not decode, the TTL script fails, it has expired) ends alone: the loop,
\* the list and the other tasks are as before.  A pop that returns no value
\* changes nothing else.
C27_OnlyPopErrorCloses ==
    [][/\ (callPoll = "polling" /\ callPoll' # "polling")
             => /\ callErr = "nil" /\ callErr' # "nil"
                /\ cIn' = cIn /\ callList' = callList /\ Dropped' = Dropped
       /\ \A c \in Conns :
             (resPoll[c] = "polling" /\ resPoll'[c] # "polling")
                 => /\ resErr[c] = "nil" /\ resErr'[c] # "nil"
                    /\ rIn'[c] = rIn[c] /\ resList'[c] = resList[c]
                    /\ Dropped' = Dropped
       /\ \A u \in URIs :
             Len(callList'[u]) < Len(callList[u])
                 => /\ callList'[u] = SubSeq(callList[u], 1, Len(callList[u]) - 1)
                    /\ callPoll = "polling" /\ callPoll' = "polling"
                    /\ cIn \subseteq cIn'
                    /\ Cardinality(cIn' \ cIn) = 1
                    /\ callsOut' = callsOut
       /\ \A c \in Conns :
             Len(resList'[c]) < Len(resList[c])
                 => /\ resList'[c] = SubSeq(resList[c], 1, Len(resList[c]) - 1)
                    /\ resPoll[c] = "polling" /\ resPoll'[c] = "polling"
                    /\ rIn[c] \subseteq rIn'[c]
                    /\ Cardinality(rIn'[c] \ rIn[c]) = 1
                    /\ resOut' = resOut
       /\ \A g \in Drops(cIn, cIn') :
             /\ cIn' = cIn \ {g}
             /\ callPoll' = callPoll /\ callList' = callList
             /\ callsOut' = callsOut
             /\ Dropped' \in {Dropped, Dropped + 1}
       /\ \A c \in Conns : \A g \in Drops(rIn[c], rIn'[c]) :
             /\ rIn'[c] = rIn[c] \ {g}
             /\ resPoll' = resPoll /\ resList' = resList
             /\ resOut' = resOut
             /\ Dropped' = Dropped + 1
       /\ Dropped' # Dropped
             => /\ Dropped' = Dropped + 1
                /\ Drops(cIn, cIn') # {}
                      \/ \E c \in Conns : Drops(rIn[c], rIn'[c]) # {}
       /\ nils' # nils
             => /\ callPoll' = callPoll /\ resPoll' = resPoll
                /\ cIn' = cIn /\ rIn' = rIn
                /\ callList' = callList /\ resList' = resList]_vars

\* the task of the first call ran its script while the loop was in its next
\* BRPOP, on the same connection, and each read the other's reply: the task
\* counted a failed script, the loop stopped on a reply that is no array,
\* and the second call, which that BRPOP had popped, was read by no one; its
\* timeout key is still in the store
C27_Witness ==
    /\ callErr = "unexpected reply"
    /\ callPoll = "closed"
    /\ expvars.FailedPTTLCalls = 1
    /\ callsOut = <<>> /\ cIn = {}
    /\ callList = [u \in URIs |-> <<>>]
    /\ \E k \in tkeys : k.kind = "call" /\ k.id = 2
    /\ ~\E k \in tkeys : k.kind = "call" /\ k.id = 1

(***************************************************************************)
(* C28.  A stream closes only when its loop's deliveries are done.         *)
(***************************************************************************)
\* C28: a closed Calls, Results or Events stream has no delivery task in
\* flight; a task ends only while its stream is open, and a task that has a
\* payload to send ends only by handing it to the stream's consumer; the
\* step in which a loop exits ends no task and takes no payload from the
\* list.
C28_CloseAfterDeliveries ==
    /\ [](callPoll = "closed" => cIn = {})
    /\ [](\A c \in Conns : resPoll[c] = "closed" => rIn[c] = {})
    /\ [](\A c \in Conns : evPoll[c] = "closed" => eTasks[c] = {})
    /\ [][/\ \A g \in cIn \ cIn' :
                /\ callPoll # "closed"
                /\ g.pc = "ready"
                      => callsOut' = Append(callsOut, ReadPayload(g))
          /\ \A c \in Conns : \A g \in rIn[c] \ rIn'[c] :
                /\ resPoll[c] # "closed"
                /\ g.pc = "ready"
                      => /\ Len(resOut'[c]) = Len(resOut[c]) + 1
                         /\ resOut'[c][Len(resOut'[c])].id = g.p.id
          /\ \A c \in Conns : \A m \in eTasks[c] \ eTasks'[c] :
                /\ evPoll[c] # "closed"
                /\ Unmarshals(m.data)
                      => Len(evOut'[c]) = Len(evOut[c]) + 1
          /\ (callPoll = "polling" /\ callPoll' # "polling")
                => cIn' = cIn /\ callList' = callList
          /\ \A c \in Conns :
                (resPoll[c] = "polling" /\ resPoll'[c] # "polling")
                    => rIn'[c] = rIn[c] /\ resList'[c] = resList[c]
          /\ \A c \in Conns :
                (evPoll[c] = "listening" /\ evPoll'[c] # "listening")
                    => eTasks'[c] = eTasks[c] /\ evIn'[c] = evIn[c]]_vars

\* the Calls loop stopped while it read the reply of a task's script: the
\* task, whose payload was popped, decodable and not expired, ended with it
\* and sent nothing, and the stream closed with nothing delivered
C28_Witness ==
    /\ callPoll = "closed" /\ callErr = "unexpected reply"
    /\ callsOut = <<>> /\ cIn = {}
    /\ expvars.FailedPTTLCalls = 1 /\ expvars.ExpiredCalls = 0
    /\ now = 0
    /\ \E c \in CloseConns : resPoll[c] = "closed" /\ evPoll[c] = "closed"

(***************************************************************************)
(* C29.  One stream and one loop per callsConn, one receiver per call.     *)
(***************************************************************************)
\* a sequence holds no value twice
NoDup(seq) == \A i, j \in 1..Len(seq) : i # j => seq[i] # seq[j]

\* the ids of a sequence of payloads or invocations, in order
Ids(seq) == [i \in 1..Len(seq) |-> seq[i].id]

\* C29: every invocation of Calls() on the callsConn returns the same
\* channel and at most one polling goroutine is started; no call is
\* received twice, by workers of this callee or by another callee, no two
\* workers run the same call, and no call is invoked twice.
C29_OneStreamOneReceiver ==
    /\ \A i, j \in 1..Len(callsRet) : callsRet[i] = callsRet[j]
    /\ cc.pollers <= 1
    /\ NoDup(Ids(callsOut) \o otherOut)
    /\ NoDup(Ids(invoked))
    /\ \A v, w \in PoolWorkers :
          (v # w /\ pool[v].pc = "busy" /\ pool[w].pc = "busy")
              => pool[v].id # pool[w].id
    /\ \A w \in PoolWorkers :
          pool[w].pc = "busy" => worker.id # pool[w].id

\* two workers have called Calls(), the connection has sent two calls, one
\* worker runs one of them and another callee has popped the other
C29_Witness ==
    /\ Len(callsRet) = 2
    /\ \A w \in PoolWorkers : pool[w].pc \in {"ready", "busy"}
    /\ \E w \in PoolWorkers : pool[w].pc = "busy"
    /\ Len(callsOut) = 1
    /\ Len(otherOut) = 1

(***************************************************************************)
(* C30.  Callee.Listen.                                                    *)
(***************************************************************************)
\* seq is the beginning of of
IsPrefix(seq, of) == Len(seq) <= Len(of) /\ seq = SubSeq(of, 1, Len(seq))

\* C30: when Listen runs, the invocations are those of the delivered
\* payloads, in delivery order, at most one payload is received and not yet
\* invoked, and each is invoked with the thunk registered for its URI; an
\* invocation, whatever it returns, leaves Listen in its loop; Listen with
\* a map that is not empty, once it has its connection, returns only on
\* the closed stream, and returns CallsErr; with an empty map it returns
\* nil and no callsConn is made.
C30_Listen ==
    /\ [](lsn.pc # "none"
            => /\ IsPrefix(Ids(invoked), Ids(callsOut))
               /\ Len(callsOut) - Len(invoked) <= 1
               /\ \A i \in 1..Len(invoked) :
                     invoked[i].fn = lsn.m[callsOut[i].uri])
    /\ [](lsn.pc = "returned" /\ DOMAIN lsn.m = {}
            => lsn.ret = "nil" /\ ~cc.made /\ callPoll = "idle")
    /\ [][/\ (invoked' # invoked /\ lsn.pc = "listening")
                => lsn'.pc = "listening"
          /\ (lsn.pc = "listening" /\ lsn'.pc = "returned")
                => /\ callPoll = "closed"
                   /\ lsn'.ret = callErr /\ lsn'.ret # "nil"]_vars

\* Listen has received two payloads, failed to store the result of the
\* first, stored the result of the second, and returned the error that
\* stopped the Calls loop
C30_Witness ==
    /\ lsn.pc = "returned" /\ lsn.ret = "store error"
    /\ Len(invoked) = 2
    /\ invoked[1].ret = "store error"
    /\ invoked[2].ret = "nil" /\ invoked[2].stored
    /\ cc.closed

(***************************************************************************)
(* C31.  What UnmarshalRequest accepts.                                    *)
(***************************************************************************)
\* the cases of TestUnmarshalRequest: the message decoded, the allowed
\* types handed to UnmarshalRequest, and whether the test wants an error
TestUnmarshalRequest ==
    {[t |-> "CALL", allowed |-> {}, wantErr |-> FALSE],
     [t |-> "SUB", allowed |-> {}, wantErr |-> FALSE],
     [t |-> "UNSB", allowed |-> {}, wantErr |-> FALSE],
     [t |-> "PUB", allowed |-> {}, wantErr |-> FALSE],
     [t |-> "ACK", allowed |-> {}, wantErr |-> TRUE],
     [t |-> "CALL", allowed |-> {"CALL"}, wantErr |-> FALSE],
     [t |-> "SUB", allowed |-> {"SUB"}, wantErr |-> FALSE],
     [t |-> "UNSB", allowed |-> {"UNSB"}, wantErr |-> FALSE],
     [t |-> "PUB", allowed |-> {"PUB"}, wantErr |-> FALSE],
     [t |-> "ACK", allowed |-> {"ACK"}, wantErr |-> TRUE],
     [t |-> "CALL", allowed |-> {"CALL", "PUB"}, wantErr |-> FALSE],
     [t |-> "SUB", allowed |-> {"CALL", "PUB"}, wantErr |-> TRUE],
     [t |-> "UNSB", allowed |-> {"CALL", "PUB"}, wantErr |-> TRUE],
     [t |-> "PUB", allowed |-> {"CALL", "PUB"}, wantErr |-> FALSE],
     [t |-> "ACK", allowed |-> {"CALL", "PUB"}, wantErr |-> TRUE]}

\* C31: UnmarshalRequest returns a message if and only if the type is one
\* of CALL, SUB, UNSB, PUB and the list of allowed types is empty or holds
\* the type; an ACK is refused also when the list holds ACK; and on the
\* cases of TestUnmarshalRequest it fails exactly where the test wants an
\* error.
C31_AcceptsAllowedRequests ==
    um.done =>
        /\ um.ok <=> /\ um.t \in {"CALL", "SUB", "UNSB", "PUB"}
                     /\ (um.allowed = {} \/ um.t \in um.allowed)
        /\ \A tc \in TestUnmarshalRequest :
              (tc.t = um.t /\ tc.allowed = um.allowed) => (um.ok <=> ~tc.wantErr)

\* an ACK was decoded under a list that allows ACK, and was refused
C31_Witness ==
    /\ um.done
    /\ um.t = "ACK" /\ "ACK" \in um.allowed
    /\ ~um.ok

(***************************************************************************)
(* C32.  PanicRecover.                                                     *)
(***************************************************************************)
\* C32: for every panic of a handler under PanicRecover the connection is
\* closed with an error made of the panic value, which is CloseErr if that
\* Close was the connection's first, and RecoveredPanics counts the panics.
C32_PanicClosesAndCounts ==
    /\ recovered = Len(panics)
    /\ \A i \in 1..Len(panics) :
          LET c == panics[i].conn
          IN  /\ closeOnce[c]
              /\ \E j \in 1..Len(closeArgs[c]) : closeArgs[c][j] # "nil"
              /\ Len(closeArgs[c]) = 1 => CloseErr[c] = closeArgs[c][1]

\* one handler has panicked with nil where nil panics are kept: recover
\* returned nil, nothing was counted and the connection is open
C32_Witness ==
    /\ Len(panics) = 1
    /\ panics[1].e.kind = "nil" /\ panics[1].r.kind = "nil"
    /\ recovered = 0
    /\ ~closeOnce[panics[1].conn]

(***************************************************************************)
(* C33.  The TTL of a stored result.                                       *)
(***************************************************************************)
\* the TTLAfterRead (in ticks) of the delivered call id
ReadTTL(id) ==
    (CHOOSE cp \in {callsOut[k] : k \in 1..Len(callsOut)} : cp.id = id).TTLAfterRead

\* C33: the TTL (in milliseconds) that InvokeAndStoreResult sets on the
\* result it stores is not more than the call's remaining time, and so not
\* more than the TTL the call had left when it was read.
C33_ResultTtlWithinRemaining ==
    \A i \in 1..Len(invoked) :
        invoked[i].result
            => /\ invoked[i].to * TicksPerMs <= invoked[i].remain
               /\ invoked[i].to * TicksPerMs <= ReadTTL(invoked[i].id)

\* a call read with one millisecond left, a thunk that returned with half a
\* millisecond left, and a result stored with the default timeout
C33_Witness ==
    /\ Len(invoked) = 1
    /\ ReadTTL(invoked[1].id) = TicksPerMs
    /\ invoked[1].remain = 1
    /\ invoked[1].stored
    /\ invoked[1].to = DefaultCallTimeoutMs
    /\ \E k \in tkeys : k.kind = "res" /\ k.id = invoked[1].id
                        /\ k.exp >= DefaultCallTimeoutMs

(***************************************************************************)
(* C34.  A call refused for capacity leaves no trace in the call list.     *)
(***************************************************************************)
\* the ids of the CALL requests that Broker.Call refused for capacity
Refused == {id \in 1..Len(reqs) : /\ reqs[id].t = "CALL"
                                  /\ reqs[id].err = "list capacity exceeded"}

\* C34: a Broker.Call that fails with "list capacity exceeded" leaves every
\* call list as it was, and the refused call is in no call list, is never
\* popped by the Calls loop, delivered to the callee or invoked.
C34_RefusedCallNotQueued ==
    /\ [][(Len(reqs') > Len(reqs) /\ Len(reqs') \in Refused')
             => callList' = callList]_vars
    /\ [](\A id \in Refused :
             /\ \A u \in URIs : \A k \in 1..Len(callList[u]) :
                   callList[u][k].id # id
             /\ \A g \in cIn : g.p.id # id
             /\ \A k \in 1..Len(callsOut) : callsOut[k].id # id
             /\ worker.id # id
             /\ \A k \in 1..Len(invoked) : invoked[k].id # id)

\* with a call capacity of 1 the second CALL was refused while the first
\* was queued; the first has since been delivered and invoked, and the
\* list is empty
C34_Witness ==
    /\ cfg.CallCap = 1
    /\ Refused = {2}
    /\ Len(invoked) = 1 /\ invoked[1].id = 1
    /\ \A u \in URIs : callList[u] = <<>>


(***************************************************************************)
(* Claims on the client's results map (SpecClient).                        *)
(***************************************************************************)
\* C35: every RES the read loop has read for a call before that call's
\* timeout fired is dispatched to the handler, whatever the order of
\* Client.Call's steps and the read loop's: it has been dispatched, or the
\* read loop still holds it, or the timeout had fired before it was read.
C35_ResBeforeTimeoutDispatched ==
    \A id \in 1..MaxReqs :
        \A i \in About(cread, "RES", id) :
            \/ About(handled, "RES", id) # {}
            \/ /\ i = Len(cread)
               /\ rmsg.pc # "idle"
               /\ rmsg.m = cread[i]
            \/ About(spawned, "RES", id) # {}
            \/ expiry[id].pc = "done" /\ expiry[id].at < i

\* the RES of call 1 was read before Client.Call added the call to the
\* results map and was dropped; the call was added afterwards and its expiry
\* task, firing after the RES had been read, dispatched an EXP
C35_Witness ==
    /\ cread # <<>>
    /\ cread[1] = [t |-> "RES", for |-> 1, forType |-> "CALL"]
    /\ expiry[1].pc = "done"
    /\ expiry[1].at >= 1
    /\ handled = <<newExp(1)>>

(***************************************************************************)
(* Claims on the receive loop after the close (SpecConn).                  *)
(***************************************************************************)
\* C36: once the close latch of a connection has fired, no step hands a
\* further request of that connection to the handler: no CALL, PUB, SUB or
\* UNSB of the connection is submitted after its close.
C36_NoRequestAfterClose ==
    [][\A c \in Conns :
          kill[c] > 0 =>
              \A i \in (Len(reqs) + 1)..Len(reqs') : reqs'[i].conn # c]_vars

\* the results loop or the pub-sub loop closed connection c1 while ServeConn
\* had not returned, and the receive loop then read a SUB and ran it on the
\* closed pub-sub handle
C36_Witness ==
    /\ kill["c1"] > 0
    /\ pscCloses["c1"] = 1
    /\ "receive" \in loops["c1"]
    /\ \E i \in 1..Len(reqs) :
          reqs[i] = [t |-> "SUB", conn |-> "c1", err |-> "pubsub error"]

(***************************************************************************)
(* The life of one connection, from ServeConn on: the setup in its steps,  *)
(* requests that make results and events, the results loop and the pub-sub *)
(* loop, Close calls by the user of the connection, who holds it from the  *)
(* Accepting notification on, and the return of ServeConn.                 *)
(***************************************************************************)
NextServe ==
    \/ \E c \in CloseConns : ServeConn(c, {}) /\ UNCHANGED header
    \/ \E c \in CloseConns, resOK \in BOOLEAN : ServeConnResults(c, resOK)
    \/ \E c \in CloseConns, psOK \in BOOLEAN : ServeConnPubSub(c, psOK)
    \/ \E c \in CloseConns : ServeConnConnected(c)
    \/ \E c \in CloseConns : ServeConnLoops(c)
    \/ \E c \in CloseConns : RecvCall(c, ListenURIs[1], 2, TRUE)
    \/ \E c \in CloseConns, ch \in Channels :
          RecvSubUnsb(c, ch, FALSE, TRUE, TRUE)
    \/ \E c \in CloseConns, ch \in Channels : RecvPub(c, ch, "x", TRUE)
    \/ \E c \in CloseConns : SendAck(c, "ok")
    \/ Calls
    \/ \E g \in cIn : CallsTask(g, "ok")
    \/ \E g \in cIn : CalleeTake(g)
    \/ InvokeAndStoreResult(TRUE, TRUE)
    \/ \E c \in CloseConns : pollResults(c)
    \/ \E c \in CloseConns : \E g \in rIn[c] : sendResult(c, g, "ok")
    \/ \E c \in CloseConns : \E g \in rIn[c] : results(c, g)
    \/ \E c \in CloseConns, wr \in WriteResults : resultsSend(c, wr)
    \/ \E c \in CloseConns : pollResultsStop(c)
    \/ \E c \in CloseConns : pollResultsFail(c)
    \/ \E c \in CloseConns : pollResultsClose(c)
    \/ \E c \in CloseConns : resultsEnd(c)
    \/ \E c \in CloseConns : \E m \in evIn[c] :
          "pubSub" \in loops[c] /\ listen(c, m)
    \/ \E c \in CloseConns : \E m \in eTasks[c] : pubSub(c, m)
    \/ \E c \in CloseConns, wr \in WriteResults : pubSubSend(c, wr)
    \/ \E c \in CloseConns : "pubSub" \in loops[c] /\ listenStop(c)
    \/ \E c \in CloseConns : "pubSub" \in loops[c] /\ listenFail(c)
    \/ \E c \in CloseConns : listenClose(c)
    \/ \E c \in CloseConns : pubSubEnd(c)
    \/ \E c \in CloseConns : served[c] /\ CloseCall(c, "a")
    \/ \E c \in CloseConns : ServeConnReturn(c)

SpecServe == Init /\ [][NextServe]_vars

\* ServeConn, the loops and their tasks are goroutines: the ConnState
\* callback and the dials return, a BRPOP or Receive on a closed handle
\* returns, a task runs its script, wg.Wait returns once the tasks are done,
\* the range over a stream takes what a task sends and sees the stream
\* closed, Conn.Send returns, and ServeConn sees kill closed
SpecServeFair ==
    /\ SpecServe
    /\ \A c \in CloseConns :
          /\ WF_vars(\E resOK \in BOOLEAN : ServeConnResults(c, resOK))
          /\ WF_vars(\E psOK \in BOOLEAN : ServeConnPubSub(c, psOK))
          /\ WF_vars(ServeConnConnected(c))
          /\ WF_vars(ServeConnLoops(c))
          /\ WF_vars(pollResultsStop(c))
          /\ WF_vars(pollResultsClose(c))
          /\ WF_vars(\E g \in rIn[c] : sendResult(c, g, "ok"))
          /\ WF_vars(\E g \in rIn[c] : results(c, g))
          /\ WF_vars(\E wr \in WriteResults : resultsSend(c, wr))
          /\ WF_vars(resultsEnd(c))
          /\ WF_vars("pubSub" \in loops[c] /\ listenStop(c))
          /\ WF_vars(listenClose(c))
          /\ WF_vars(\E m \in eTasks[c] : pubSub(c, m))
          /\ WF_vars(\E wr \in WriteResults : pubSubSend(c, wr))
          /\ WF_vars(pubSubEnd(c))
          /\ WF_vars(ServeConnReturn(c))

\* the results loop and the pub-sub loop of c, and the tasks behind their
\* streams, have all ended, and ServeConn has returned
Terminated(c) ==
    /\ loops[c] \cap {"results", "pubSub"} = {}
    /\ rIn[c] = {} /\ resHeld[c] = NoMsg
    /\ eTasks[c] = {} /\ evHeld[c] = NoMsg
    /\ servePc[c] = "returned"

\* C37: once Close has run on a connection, its results loop and its
\* pub-sub loop eventually end, with no task left behind them, and
\* ServeConn returns.
C37_LoopsEndAfterClose ==
    \A c \in CloseConns : (kill[c] > 0) ~> Terminated(c)

\* the user closed connection c1 when it was notified Accepting, before
\* ServeConn had made the handles: ServeConn made them, started the loops
\* and returned at once, and the results loop and the pub-sub loop still
\* run on their open handles
C37_Witness ==
    /\ closeArgs["c1"] = <<"a">>
    /\ kill["c1"] > 0
    /\ servePc["c1"] = "returned"
    /\ resc["c1"] = "set" /\ rescCloses["c1"] = 0
    /\ psc["c1"] = "set" /\ pscCloses["c1"] = 0
    /\ {"results", "pubSub"} \subseteq loops["c1"]
    /\ resPoll["c1"] = "polling" /\ evPoll["c1"] = "listening"

(***************************************************************************)
(* Claims on a failed setup (SpecClose).                                   *)
(***************************************************************************)
\* C38: a connection for which ServeConn created the results handle and
\* then failed to create the pub-sub handle is closed with the setup error,
\* its results handle has been closed once, and none of its loops runs,
\* whatever Close calls follow.
C38_PubSubSetupFails ==
    \A c \in Conns :
        (SetupFailed(c) /\ resc[c] = "set") =>
            /\ psc[c] = "nil"
            /\ kill[c] = 1
            /\ CloseErr[c] = "setup"
            /\ rescCloses[c] = 1
            /\ pscCloses[c] = 0
            /\ loops[c] = {}

\* the user closed c1 from the Accepting callback; ServeConn then created
\* the results handle, failed on the pub-sub handle, called Close, which
\* did nothing, and returned: the results handle is left open
C38_Witness ==
    /\ servePc["c1"] = "returned"
    /\ resc["c1"] = "set"
    /\ psc["c1"] = "nil"
    /\ closeArgs["c1"] = <<"a", "setup">>
    /\ CloseErr["c1"] = "a"
    /\ kill["c1"] = 1
    /\ rescCloses["c1"] = 0
    /\ loops["c1"] = {}

(***************************************************************************)
(* ServeConn called with any set of request types, with or without a type  *)
(* that is no request, and the receive loop of the connection it serves.   *)
(***************************************************************************)
NextAllowed ==
    \/ \E c \in CloseConns, msgs \in SUBSET (allReqMsgs \cup {"ACK"}) :
          ServeConn(c, msgs) /\ UNCHANGED header
    \/ \E c \in CloseConns, resOK \in BOOLEAN : ServeConnResults(c, resOK)
    \/ \E c \in CloseConns, psOK \in BOOLEAN : ServeConnPubSub(c, psOK)
    \/ \E c \in CloseConns : ServeConnConnected(c)
    \/ \E c \in CloseConns : ServeConnLoops(c)
    \/ \E c \in CloseConns, uri \in URIs, timeout \in CallTimeouts :
          RecvCall(c, uri, timeout, TRUE)
    \/ \E c \in CloseConns, ch \in Channels, args \in PubArgs :
          RecvPub(c, ch, args, TRUE)
    \/ \E c \in CloseConns, ch \in Channels, pat \in BOOLEAN, sub \in BOOLEAN,
          opOK \in BOOLEAN : RecvSubUnsb(c, ch, pat, sub, opOK)
    \/ \E c \in CloseConns, wr \in WriteResults : SendAck(c, wr)
    \/ \E c \in CloseConns : RecvError(c)
    \/ \E c \in CloseConns, f \in BadFrames \cup {Frame(t) : t \in allReqMsgs} :
          RecvReject(c, f)

SpecAllowed == Init /\ [][NextAllowed]_vars

\* C39: a SUB or UNSB is handed to the processor only on a connection that
\* has a pub-sub handle: the receive loop of a connection without one
\* rejects both types, and every SUB or UNSB processed was run on a handle.
C39_SubUnsbHasHandle ==
    /\ \A c \in Conns, t \in {"SUB", "UNSB"} :
          ("receive" \in loops[c] /\ ~Rejects(Frame(t), allowedMsgs[c]))
              => psc[c] = "set"
    /\ \A i \in 1..Len(reqs) :
          reqs[i].t \in {"SUB", "UNSB"} => psc[reqs[i].conn] = "set"

\* c1 was served with UNSB alone allowed, which starts no pub-sub loop, and
\* an UNSB was processed on its pub-sub handle
C39_Witness ==
    /\ allowedMsgs["c1"] = {"UNSB"}
    /\ "pubSub" \notin loops["c1"]
    /\ psc["c1"] = "set"
    /\ \E i \in 1..Len(reqs) :
          reqs[i] = [t |-> "UNSB", conn |-> "c1", err |-> "nil"]

(***************************************************************************)
(* Claims on the write-lock slot (SpecWriter).                             *)
(***************************************************************************)
\* the writers of connection c that took the token and have not closed
Holders(c) ==
    {w \in Writers : ew[w].conn = c /\ ew[w].init /\ ew[w].pc # "closed"}

\* C40: the write-lock slot of a connection holds one token or none, and the
\* token is in the slot exactly when no writer holds it; the Close of a
\* writer that took the token finds the slot empty, so its release does not
\* block, and puts one token back, also when NextWriter had failed; the
\* Close of a writer that never took the token leaves the slot as it is.
C40_WriteLockSlot ==
    /\ [](\A c \in Conns :
            /\ wmu[c] \in {0, 1}
            /\ wmu[c] + Cardinality(Holders(c)) = 1)
    /\ [](\A w \in Writers :
            (ew[w].pc = "idle" /\ ew[w].init) => wmu[ew[w].conn] = 0)
    /\ [][\A w \in Writers :
            (ew[w].pc # "closed" /\ ew'[w].pc = "closed") =>
                wmu'[ew[w].conn] =
                    wmu[ew[w].conn] + (IF ew[w].init THEN 1 ELSE 0)]_vars

\* w1 took the lock of c1 and NextWriter failed; w2 timed out waiting for
\* the lock; both were closed and the slot holds its one token again
C40_Witness ==
    /\ ew["w1"].conn = "c1" /\ ew["w2"].conn = "c1"
    /\ ew["w1"].pc = "closed" /\ ew["w1"].init /\ ew["w1"].err = "NextWriter"
    /\ ew["w2"].pc = "closed" /\ ~ew["w2"].init
    /\ ew["w2"].err = "ErrWriteLockTimeout"
    /\ wmu["c1"] = 1

====
